---- MODULE Spec2Model ----
(***************************************************************************)
(* Model of hyperautomation.py: the report extraction                      *)
(* (parse_hyperopt_show_output), its helpers (get_value_from_dict,         *)
(* parse_duration) and the inputs they are called with.                    *)
(*                                                                         *)
(* Text is kept concrete.  Atoms (cell texts, keys, literal texts) are     *)
(* strings.  A report line is a record  [kind, key, val, cells, pad]       *)
(* standing for one line of text:                                          *)
(*   blank            ""                                                   *)
(*   text             val                (free text: no marker, no glyph,  *)
(*                                        no '#', '"' or '=' in it)        *)
(*   comment          "# " val           (a '#' line that is no marker)    *)
(*   buy_marker       "    # Buy hyperspace params:"                       *)
(*   sell_marker      "    # Sell hyperspace params:"                      *)
(*   roi_marker       "    # ROI table:"                                   *)
(*   stoploss_marker  "    # Stoploss:"                                    *)
(*   trailing_marker  "    # Trailing stop:"                               *)
(*   maxopen_marker   "    # Max Open Trades:"                             *)
(*   entry            '        "' key '": ' val ','                        *)
(*   bare             '        "' key '",'                                 *)
(*   bad              '        "' key '": ,'                               *)
(*   summary_marker   "          SUMMARY METRICS"                          *)
(*   backtest_marker  "          BACKTESTING REPORT"                       *)
(*   border           "└──────┴──────┘"                                    *)
(*   row              "│" pad*" " cells[1] " │ " cells[2] " │ ... " │"     *)
(*   assign           "    " key " = " val  ["  # " cells[1]]              *)
(* unicodedata.normalize('NFKC', .) (lines 294, 355) changes none of these *)
(* characters, and str.strip() removes the indentation shown above.        *)
(***************************************************************************)
EXTENDS Integers, Sequences, FiniteSets, TLC

VARIABLES
    family,        \* which vocabulary the report under construction draws from
    schema,        \* [config, strategy, results]: lines 49-51, fixed at startup
    content,       \* show_output_content: [absent, lines]
    pc,            \* "input" while the report is written, "parsed" after the call
    result,        \* what parse_hyperopt_show_output returned
    buy_params,    \* its local buy_params at return
    sell_params,   \* its local sell_params at return
    metrics,       \* its local metrics at return
    scan,          \* its locals buy_section, sell_section and total_lines at return
    log,           \* the messages it printed, in order
    args,          \* the other arguments of the call: [ctx, run_index, seed]
    dur_in,        \* parse_duration's argument, split on ":"
    dur_pc,        \* "input" / "done"
    dur_out,       \* parse_duration's return value
    sheet,         \* the results worksheet: [rows, cols]
    w_calls,       \* how many times write_results_to_row was called
    w_last,        \* the latest call: its arguments, store operations and return value
    d_pc,          \* the driver: "idle", "start", "loop", "done" or "exit"
    hyperopt_runs, \* the run contexts read from the config sheet
    run_i,         \* the loop index i of the next run
    next_run_number,
    successful_runs_count,
    failed_runs_count,
    d_last,        \* the latest run: its outcome, parsed result and submitted record
    rs_pc,         \* run_hyperopt_docker: "idle", "reading" or "returned"
    input_random_state,
    captured_random_state,
    buffer,        \* the cleaned lines since the last capture
    rs_out,        \* every line the process has printed so far
    rs_ret         \* what run_hyperopt_docker returned

pvars == <<family, schema, content, pc, result, buy_params, sell_params, metrics, scan, log, args>>
dvars == <<dur_in, dur_pc, dur_out>>
wvars == <<sheet, w_calls, w_last>>
drvars == <<d_pc, hyperopt_runs, run_i, next_run_number, successful_runs_count,
            failed_runs_count, d_last>>
svars == <<rs_pc, input_random_state, captured_random_state, buffer, rs_out, rs_ret>>
vars == <<pvars, dvars, wvars, drvars, svars>>

---------------------------------------------------------------------------
(* Bounds *)
MaxLines == 4
MaxParts == 4
MaxWrites == 2
MaxRuns == 2
MaxOutput == 3

---------------------------------------------------------------------------
(* Python values: str, int, None *)
PyStr(s) == [t |-> "str", s |-> s, n |-> 0]
PyInt(n) == [t |-> "int", s |-> "", n |-> n]
PyNone == [t |-> "None", s |-> "", n |-> 0]
NA == PyStr("N/A")

EmptyDict == [k \in {} |-> NA]
DictSet(d, k, v) == [x \in (DOMAIN d) \cup {k} |-> IF x = k THEN v ELSE d[x]]
\* dict.update / successive d[k] = v for every key of e
DictUpdate(d, e) == [x \in (DOMAIN d) \cup (DOMAIN e) |-> IF x \in DOMAIN e THEN e[x] ELSE d[x]]
DictGet(d, k, default) == IF k \in DOMAIN d THEN d[k] ELSE default

Range(s) == {s[i] : i \in DOMAIN s}

---------------------------------------------------------------------------
(* Text conversions, on the vocabulary of the model *)

\* the decimal texts int() accepts, with their values
IntTexts == {"0", "00", "1", "2", "3", "4", "05", "5", "10", "12", "15", "29", "30", "42", "45", "61", "75"}
IntOfText(s) ==
    CASE s \in {"0", "00"} -> 0
      [] s = "1" -> 1
      [] s = "2" -> 2
      [] s = "3" -> 3
      [] s = "4" -> 4
      [] s \in {"05", "5"} -> 5
      [] s = "10" -> 10
      [] s = "12" -> 12
      [] s = "15" -> 15
      [] s = "29" -> 29
      [] s = "30" -> 30
      [] s = "42" -> 42
      [] s = "45" -> 45
      [] s = "61" -> 61
      [] s = "75" -> 75

\* str.split(":")
SplitColon(s) ==
    CASE s = "1:15:00" -> <<"1", "15", "00">>
      [] s = "1:29:00" -> <<"1", "29", "00">>
      [] s = "2:05" -> <<"2", "05">>
      [] s = "1:2:3:5" -> <<"1", "2", "3", "5">>
      [] OTHER -> <<s>>

\* str.replace("%", "")
StripPercent(s) ==
    CASE s = "1.23%" -> "1.23"
      [] s = "7.89%" -> "7.89"
      [] s = "5.5%" -> "5.5"
      [] s = "%" -> ""
      [] OTHER -> s

---------------------------------------------------------------------------
(* parse_duration, lines 79-90.  parts is duration_str.split(":").         *)

\* a bug that truncates
TruncMinutes(t) == t \div 60

\* Python's round() of t/60 for an integer t: to nearest, ties to even
RoundMinutes(t) ==
    LET q == t \div 60
        r == t % 60
    IN  IF r < 30 THEN q
        ELSE IF r > 30 THEN q + 1
        ELSE IF q % 2 = 0 THEN q ELSE q + 1

parse_duration(parts) ==
    IF \E i \in DOMAIN parts : parts[i] \notin IntTexts
    THEN NA                                          \* int() raised: except -> "N/A"
    ELSE IF Len(parts) = 3
         THEN PyInt(RoundMinutes(3600 * IntOfText(parts[1]) + 60 * IntOfText(parts[2]) + IntOfText(parts[3])))
         ELSE IF Len(parts) = 2
              THEN PyInt(RoundMinutes(60 * IntOfText(parts[1]) + IntOfText(parts[2])))
              ELSE PyNone                            \* neither branch: falls off the end

\* the components a duration string is made of in the duration runs
DurTokens == {"00", "1", "2", "05", "29", "30", "45", "61", "abc", ""}

InitDur ==
    /\ dur_in = <<>>
    /\ dur_pc = "input"
    /\ dur_out = PyNone

DurAddPart(tok) ==
    /\ dur_pc = "input"
    /\ Len(dur_in) < MaxParts
    /\ dur_in' = Append(dur_in, tok)
    /\ UNCHANGED <<dur_pc, dur_out>>

DurCall ==
    /\ dur_pc = "input"
    /\ Len(dur_in) >= 1
    /\ dur_out' = parse_duration(dur_in)
    /\ dur_pc' = "done"
    /\ UNCHANGED dur_in


---------------------------------------------------------------------------
(* Configuration read at startup, lines 15-57 *)
DEFAULT_CONFIG_FILENAME == "config.json"
DEFAULT_LOSS_FUNCTION == "SharpeHyperOptLoss"

CONFIG_HEADERS == schema.config
STRATEGY_HEADERS == schema.strategy
RESULTS_HEADERS == schema.results
RESULT_HEADERS == CONFIG_HEADERS \o STRATEGY_HEADERS \o RESULTS_HEADERS

\* the keys of the dict literal of lines 461-473
ContextKeys == {"Run #", "Strategy", "Config", "Epochs", "random-state", "Timerange",
                "Pairs", "loss_function", "Leverage", "% per trade", "Date and Time"}

\* datetime.now(timezone.utc).strftime(...), line 472: the clock is an input
Now == "2026-01-01 00:00:00 UTC"

\* str(run_index), line 462
StrOfInt(n) ==
    CASE n = 1 -> "1"
      [] n = 2 -> "2"
      [] n = 3 -> "3"
      [] n = 4 -> "4"
      [] n = 5 -> "5"
      [] n = 10 -> "10"
      [] n = 12 -> "12"
      [] n = 75 -> "75"

---------------------------------------------------------------------------
(* get_value_from_dict, lines 59-64.  data_dict maps keys to strings;      *)
(* default is a Python value.                                              *)
get_value_from_dict(data_dict, key, default) ==
    IF key \notin DOMAIN data_dict THEN default                \* val is None
    ELSE IF data_dict[key] \in {"", "#N/A"} THEN default
    ELSE PyStr(data_dict[key])

---------------------------------------------------------------------------
(* Report lines *)
Line(kind, key, val, cells, pad) ==
    [kind |-> kind, key |-> key, val |-> val, cells |-> cells, pad |-> pad]

Blank == Line("blank", "", "", <<>>, 0)
Text(s) == Line("text", "", s, <<>>, 0)
Comment(s) == Line("comment", "", s, <<>>, 0)
BuyMarker == Line("buy_marker", "", "", <<>>, 0)
SellMarker == Line("sell_marker", "", "", <<>>, 0)
RoiMarker == Line("roi_marker", "", "", <<>>, 0)
StoplossMarker == Line("stoploss_marker", "", "", <<>>, 0)
TrailingMarker == Line("trailing_marker", "", "", <<>>, 0)
MaxOpenMarker == Line("maxopen_marker", "", "", <<>>, 0)
SummaryMarker == Line("summary_marker", "", "", <<>>, 0)
BacktestMarker == Line("backtest_marker", "", "", <<>>, 0)
Border == Line("border", "", "", <<>>, 0)
Entry(k, v) == Line("entry", k, v, <<>>, 0)
Bare(k) == Line("bare", k, "", <<>>, 0)
Bad(k) == Line("bad", k, "", <<>>, 0)
Row(pad, cells) == Line("row", "", "", cells, pad)
Assign(k, v) == Line("assign", k, v, <<>>, 0)
AssignC(k, v, c) == Line("assign", k, v, <<c>>, 0)

(* The tests the code makes on line.strip() *)
HasBuyMarker(l) == l.kind = "buy_marker"            \* "# Buy hyperspace params:" in stripped
HasSellMarker(l) == l.kind = "sell_marker"          \* "# Sell hyperspace params:" in stripped
StartsRoiOrStoploss(l) == l.kind \in {"roi_marker", "stoploss_marker"}
StartsTrailingOrMaxOpen(l) == l.kind \in {"trailing_marker", "maxopen_marker"}
StartsWithQuote(l) == l.kind \in {"entry", "bare", "bad"}
HasSummaryMarker(l) == l.kind = "summary_marker"    \* "SUMMARY METRICS" in stripped
StartsWithClosingBorder(l) == l.kind = "border"     \* startswith("└")
HasBacktestMarker(l) == l.kind = "backtest_marker"  \* "BACKTESTING REPORT" in stripped
StartsWithGlyph(l) == l.kind = "row"                \* startswith("│")
TotalPad == 5
StartsWithTotal(l) ==                               \* startswith("│     TOTAL")
    /\ l.kind = "row"
    /\ l.pad = TotalPad
    /\ Len(l.cells) >= 1
    /\ l.cells[1] = "TOTAL"
HasTrailingMarker(l) == l.kind = "trailing_marker"  \* "# Trailing stop:" in stripped
StartsWithHash(l) ==
    l.kind \in {"comment", "buy_marker", "sell_marker", "roi_marker", "stoploss_marker",
                "trailing_marker", "maxopen_marker"}
StartsWithMaxOpenTrades(l) == l.kind = "assign" /\ l.key = "max_open_trades"
IsEmptyStripped(l) == l.kind = "blank"

---------------------------------------------------------------------------
(* Parameter blocks, lines 300-347 *)

\* a bug that starts the walk at the first buy marker
ParamBlockStartFirst(lines) ==
    IF \E i \in DOMAIN lines : HasBuyMarker(lines[i])
    THEN CHOOSE i \in DOMAIN lines :
            /\ HasBuyMarker(lines[i])
            /\ \A j \in DOMAIN lines : HasBuyMarker(lines[j]) => i <= j
    ELSE 0

\* lines 305-309: index of the last buy marker, 0 when there is none (-1 in the code)
ParamBlockStart(lines) ==
    IF \E i \in DOMAIN lines : HasBuyMarker(lines[i])
    THEN CHOOSE i \in DOMAIN lines :
            /\ HasBuyMarker(lines[i])
            /\ \A j \in DOMAIN lines : HasBuyMarker(lines[j]) => j <= i
    ELSE 0

\* a bug that ends the walk at a ROI or Stoploss line
RECURSIVE WalkParamsRoiEnds(_, _, _)
WalkParamsRoiEnds(lines, i, st) ==
    IF i > Len(lines) THEN st
    ELSE LET l == lines[i] IN
         IF HasBuyMarker(l)
         THEN WalkParamsRoiEnds(lines, i + 1, [st EXCEPT !.in_buy = TRUE, !.in_sell = FALSE])
         ELSE IF HasSellMarker(l)
         THEN WalkParamsRoiEnds(lines, i + 1, [st EXCEPT !.in_buy = FALSE, !.in_sell = TRUE])
         ELSE IF StartsRoiOrStoploss(l) \/ StartsTrailingOrMaxOpen(l)
         THEN st
         ELSE IF st.in_buy /\ StartsWithQuote(l)
         THEN WalkParamsRoiEnds(lines, i + 1, [st EXCEPT !.buy = Append(@, l)])
         ELSE IF st.in_sell /\ StartsWithQuote(l)
         THEN WalkParamsRoiEnds(lines, i + 1, [st EXCEPT !.sell = Append(@, l)])
         ELSE WalkParamsRoiEnds(lines, i + 1, st)

\* lines 312-331: the walk from index i; st = [in_buy, in_sell, buy, sell]
RECURSIVE WalkParams(_, _, _)
WalkParams(lines, i, st) ==
    IF i > Len(lines) THEN st
    ELSE LET l == lines[i] IN
         IF HasBuyMarker(l)
         THEN WalkParams(lines, i + 1, [st EXCEPT !.in_buy = TRUE, !.in_sell = FALSE])
         ELSE IF HasSellMarker(l)
         THEN WalkParams(lines, i + 1, [st EXCEPT !.in_buy = FALSE, !.in_sell = TRUE])
         ELSE IF StartsRoiOrStoploss(l)
         THEN WalkParams(lines, i + 1, [st EXCEPT !.in_buy = FALSE, !.in_sell = FALSE])
         ELSE IF StartsTrailingOrMaxOpen(l)
         THEN st                                                        \* break
         ELSE IF st.in_buy /\ StartsWithQuote(l)
         THEN WalkParams(lines, i + 1, [st EXCEPT !.buy = Append(@, l)])
         ELSE IF st.in_sell /\ StartsWithQuote(l)
         THEN WalkParams(lines, i + 1, [st EXCEPT !.sell = Append(@, l)])
         ELSE WalkParams(lines, i + 1, st)

ParamSections(lines) ==
    LET start == ParamBlockStart(lines)
        st0 == [in_buy |-> FALSE, in_sell |-> FALSE, buy |-> <<>>, sell |-> <<>>]
    IN  IF start # 0 THEN WalkParams(lines, start, st0) ELSE st0

\* the integer literals ast.literal_eval accepts: no leading zero before a
\* non-zero digit; a literal made of zeros only ("00") is accepted and is 0
IntLiterals == IntTexts \ {"05"}

RECURSIVE EntriesToDict(_, _, _)
EntriesToDict(section, i, d) ==
    IF i > Len(section) THEN d
    ELSE EntriesToDict(section, i + 1,
                       DictSet(d, section[i].key, PyInt(IntOfText(section[i].val))))

\* ast.literal_eval("{\n" + "\n".join(section).strip().rstrip(",") + "\n}"),
\* lines 333-335 and 340-342, for a non-empty section:
\*   kind "dict"   a dict display: every line is '"key": <int literal>,'
\*   kind "nonmap" a set display:  every line is '"key",'
\*   kind "raise"  anything else does not parse
literal_eval(section) ==
    IF \A i \in DOMAIN section :
           section[i].kind = "entry" /\ section[i].val \in IntLiterals
    THEN [kind |-> "dict", d |-> EntriesToDict(section, 1, EmptyDict)]
    ELSE IF \A i \in DOMAIN section : section[i].kind = "bare"
    THEN [kind |-> "nonmap", d |-> EmptyDict]
    ELSE [kind |-> "raise", d |-> EmptyDict]

\* lines 296-297 and 332-345: the local after the block; {} when the section
\* is empty or literal_eval raised
DecodeParams(section) ==
    IF section = <<>> THEN [kind |-> "dict", d |-> EmptyDict]
    ELSE LET v == literal_eval(section) IN
         IF v.kind = "raise" THEN [kind |-> "dict", d |-> EmptyDict] ELSE v

DecodeWarns(section) == section # <<>> /\ literal_eval(section).kind = "raise"

---------------------------------------------------------------------------
(* SUMMARY METRICS table, lines 349-372 *)

\* metric_pattern.search(stripped), line 364: needs three glyphs, i.e. a row of
\* at least two cells; the groups are the first two cells
MetricMatch(l) == l.kind = "row" /\ Len(l.cells) >= 2

RECURSIVE SummaryScan(_, _, _, _)
SummaryScan(lines, i, in_summary, m) ==
    IF i > Len(lines) THEN m
    ELSE LET l == lines[i] IN
         IF HasSummaryMarker(l) THEN SummaryScan(lines, i + 1, TRUE, m)
         ELSE IF in_summary /\ StartsWithClosingBorder(l) THEN m        \* break
         ELSE IF in_summary /\ ~IsEmptyStripped(l) /\ MetricMatch(l)
                 /\ l.cells[1] # "" /\ l.cells[2] # "" /\ l.cells[1] # "Metric"
         THEN SummaryScan(lines, i + 1, in_summary, DictSet(m, l.cells[1], PyStr(l.cells[2])))
         ELSE SummaryScan(lines, i + 1, in_summary, m)

\* a bug that treats the table as open from the first line
SummaryMetricsNoMarker(lines) == SummaryScan(lines, 1, TRUE, EmptyDict)

SummaryMetrics(lines) == SummaryScan(lines, 1, FALSE, EmptyDict)

---------------------------------------------------------------------------
(* BACKTESTING REPORT total row, lines 374-417 *)

\* a bug that captures a TOTAL row without waiting for the marker
TotalRowIndexAnywhere(lines) ==
    LET Hit(i) == ~HasBacktestMarker(lines[i]) /\ StartsWithTotal(lines[i])
    IN  IF \E i \in DOMAIN lines : Hit(i)
        THEN CHOOSE i \in DOMAIN lines : Hit(i) /\ \A j \in 1..(i - 1) : ~Hit(j)
        ELSE 0

\* lines 378-391: index of the row the loop breaks at, 0 when it never does
TotalRowIndex(lines) ==
    LET Hit(i) == /\ ~HasBacktestMarker(lines[i])
                  /\ \E j \in 1..(i - 1) : HasBacktestMarker(lines[j])
                  /\ StartsWithTotal(lines[i])
    IN  IF \E i \in DOMAIN lines : Hit(i)
        THEN CHOOSE i \in DOMAIN lines : Hit(i) /\ \A j \in 1..(i - 1) : ~Hit(j)
        ELSE 0

\* a bug that looks at the three lines after the TOTAL row
TotalLinesThreeFollowing(lines) ==
    LET i == TotalRowIndex(lines)
        Following(j) == IF i + j <= Len(lines) /\ StartsWithGlyph(lines[i + j])
                        THEN <<lines[i + j]>> ELSE <<>>
    IN  IF i = 0 THEN <<>> ELSE <<lines[i]>> \o Following(1) \o Following(2) \o Following(3)

\* lines 385-390: the TOTAL row and, of the two lines after it, those that
\* start with the glyph
TotalLines(lines) ==
    LET i == TotalRowIndex(lines)
        Next1 == IF i + 1 <= Len(lines) /\ StartsWithGlyph(lines[i + 1]) THEN <<lines[i + 1]>> ELSE <<>>
        Next2 == IF i + 2 <= Len(lines) /\ StartsWithGlyph(lines[i + 2]) THEN <<lines[i + 2]>> ELSE <<>>
    IN  IF i = 0 THEN <<>> ELSE <<lines[i]>> \o Next1 \o Next2

\* [p.strip() for p in line.split("│") if p.strip()]
NonEmptyCell(c) == c # ""
RowParts(l) == SelectSeq(l.cells, NonEmptyCell)

MinTotalParts == 7

\* a bug that reads the TOTAL row one column to the right
TotalMetricsShifted(lines) ==
    LET total_lines == TotalLines(lines)
        first_line_parts == RowParts(total_lines[1])
        win_pct_parts == RowParts(total_lines[3])
        win_pct == IF Len(total_lines) >= 3 /\ win_pct_parts # <<>>
                   THEN PyStr(win_pct_parts[Len(win_pct_parts)])
                   ELSE NA
    IN  IF total_lines # <<>> /\ Len(first_line_parts) >= MinTotalParts
        THEN [x \in {"Trades #", "Avg. Profit %", "Total profit %", "Duration min", "% Win"} |->
                CASE x = "Trades #" -> PyStr(first_line_parts[3])
                  [] x = "Avg. Profit %" -> PyStr(StripPercent(first_line_parts[4]))
                  [] x = "Total profit %" -> PyStr(StripPercent(first_line_parts[6]))
                  [] x = "Duration min" -> parse_duration(SplitColon(first_line_parts[7]))
                  [] x = "% Win" -> win_pct]
        ELSE EmptyDict

TotalMetrics(lines) ==
    LET total_lines == TotalLines(lines)
        first_line_parts == RowParts(total_lines[1])
        win_pct_parts == RowParts(total_lines[3])
        win_pct == IF Len(total_lines) >= 3 /\ win_pct_parts # <<>>
                   THEN PyStr(win_pct_parts[Len(win_pct_parts)])
                   ELSE NA
    IN  IF total_lines # <<>> /\ Len(first_line_parts) >= MinTotalParts
        THEN [x \in {"Trades #", "Avg. Profit %", "Total profit %", "Duration min", "% Win"} |->
                CASE x = "Trades #" -> PyStr(first_line_parts[2])
                  [] x = "Avg. Profit %" -> PyStr(StripPercent(first_line_parts[3]))
                  [] x = "Total profit %" -> PyStr(StripPercent(first_line_parts[5]))
                  [] x = "Duration min" -> parse_duration(SplitColon(first_line_parts[6]))
                  [] x = "% Win" -> win_pct]
        ELSE EmptyDict

---------------------------------------------------------------------------
(* Trailing stop block and max_open_trades line, lines 419-457 *)
TrailingKeys == {"trailing_stop", "trailing_stop_positive",
                 "trailing_stop_positive_offset", "trailing_only_offset_is_reached"}

\* a bug that does not end the block at a comment or max_open_trades line
RECURSIVE TrailingScanNoEnd(_, _, _, _)
TrailingScanNoEnd(lines, i, in_trailing, tp) ==
    IF i > Len(lines) THEN tp
    ELSE LET l == lines[i] IN
         IF HasTrailingMarker(l) THEN TrailingScanNoEnd(lines, i + 1, TRUE, tp)
         ELSE IF in_trailing /\ l.kind = "assign" /\ l.key \in TrailingKeys
         THEN TrailingScanNoEnd(lines, i + 1, in_trailing, DictSet(tp, l.key, PyStr(l.val)))
         ELSE TrailingScanNoEnd(lines, i + 1, in_trailing, tp)

RECURSIVE TrailingScan(_, _, _, _)
TrailingScan(lines, i, in_trailing, tp) ==
    IF i > Len(lines) THEN tp
    ELSE LET l == lines[i] IN
         IF HasTrailingMarker(l) THEN TrailingScan(lines, i + 1, TRUE, tp)
         ELSE IF in_trailing /\ (StartsWithHash(l) \/ StartsWithMaxOpenTrades(l)) THEN tp
         ELSE IF in_trailing /\ l.kind = "assign" /\ l.key \in TrailingKeys
         THEN TrailingScan(lines, i + 1, in_trailing, DictSet(tp, l.key, PyStr(l.val)))
         ELSE TrailingScan(lines, i + 1, in_trailing, tp)

\* a bug that reads trailing-stop assignments without waiting for the marker
TrailingParamsNoMarker(lines) == TrailingScan(lines, 1, TRUE, [k \in TrailingKeys |-> NA])

TrailingParams(lines) == TrailingScan(lines, 1, FALSE, [k \in TrailingKeys |-> NA])

\* lines 450-457: the first line "max_open_trades = <digits>"
MaxOpenMatch(l) == StartsWithMaxOpenTrades(l) /\ l.val \in IntTexts
MaxOpenMetrics(lines) ==
    IF \E i \in DOMAIN lines : MaxOpenMatch(lines[i])
    THEN LET i == CHOOSE i \in DOMAIN lines :
                    MaxOpenMatch(lines[i]) /\ \A j \in 1..(i - 1) : ~MaxOpenMatch(lines[j])
         IN  [x \in {"Max open trades"} |-> PyStr(lines[i].val)]
    ELSE EmptyDict

---------------------------------------------------------------------------
(* Combine All Parsed Data, lines 459-483 *)

\* a bug that lets the summary table overwrite the total row
AllMetricsSummaryLast(lines) ==
    LET tp == TrailingParams(lines)
        kept == [k \in {x \in TrailingKeys : x \in Range(RESULT_HEADERS)} |-> tp[k]]
    IN  DictUpdate(DictUpdate(DictUpdate(TotalMetrics(lines), SummaryMetrics(lines)), kept),
                   MaxOpenMetrics(lines))

\* lines 354-457 in order: every later assignment to metrics overwrites
AllMetrics(lines) ==
    LET tp == TrailingParams(lines)
        kept == [k \in {x \in TrailingKeys : x \in Range(RESULT_HEADERS)} |-> tp[k]]
    IN  DictUpdate(DictUpdate(DictUpdate(SummaryMetrics(lines), TotalMetrics(lines)), kept),
                   MaxOpenMetrics(lines))

\* line 460
InitRecord == [h \in Range(RESULT_HEADERS) |-> NA]

\* the dict literal of lines 461-473
ContextFields(ctx, run_index, seed) ==
    [k \in ContextKeys |->
        CASE k = "Run #" -> PyStr(StrOfInt(run_index))
          [] k = "Strategy" -> get_value_from_dict(ctx, "strategy_name", NA)
          [] k = "Config" -> get_value_from_dict(ctx, "config_filename", PyStr(DEFAULT_CONFIG_FILENAME))
          [] k = "Epochs" -> get_value_from_dict(ctx, "epochs", PyStr(""))
          [] k = "random-state" -> IF seed # PyNone THEN seed ELSE NA
          [] k = "Timerange" -> get_value_from_dict(ctx, "timerange", PyStr(""))
          [] k = "Pairs" -> get_value_from_dict(ctx, "Pairs", NA)
          [] k = "loss_function" -> get_value_from_dict(ctx, "loss_function", PyStr(DEFAULT_LOSS_FUNCTION))
          [] k = "Leverage" -> get_value_from_dict(ctx, "Leverage", NA)
          [] k = "% per trade" -> get_value_from_dict(ctx, "% per trade", NA)
          [] k = "Date and Time" -> PyStr(Now)]

\* line 461: parsed_data.update({...})
MergeContext(rec, ctx, run_index, seed) == DictUpdate(rec, ContextFields(ctx, run_index, seed))

\* lines 474-475, for dict buy_params and sell_params
MergeStrategy(rec, buy, sell) ==
    [x \in (DOMAIN rec) \cup Range(STRATEGY_HEADERS) |->
        IF x \in Range(STRATEGY_HEADERS) THEN DictGet(buy, x, DictGet(sell, x, NA)) ELSE rec[x]]

\* lines 474-475 raise AttributeError when a .get is called on a value that is
\* no dict; the loop body runs only if STRATEGY_HEADERS is not empty
StrategyRaises(buy, sell) ==
    STRATEGY_HEADERS # <<>> /\ (buy.kind # "dict" \/ sell.kind # "dict")

\* lines 476-480
MergeMetrics(rec, m) ==
    [x \in DOMAIN rec |-> IF x \in DOMAIN m /\ x \in Range(RESULT_HEADERS) THEN m[x] ELSE rec[x]]

Unset == [kind |-> "unset", d |-> EmptyDict]
NoScan == [done |-> FALSE, buy |-> <<>>, sell |-> <<>>, total |-> <<>>]
NoRecord == [ok |-> FALSE, rec |-> EmptyDict]
Record(rec) == [ok |-> TRUE, rec |-> rec]

\* the messages printed, one tag per print statement that tells a path apart
ParseLog(lines, raised) ==
    LET sec == ParamSections(lines)
        tl == TotalLines(lines)
    IN  <<"parsing">>
        \o (IF ParamBlockStart(lines) # 0
            THEN <<"found_param_block">>
                 \o (IF DecodeWarns(sec.buy) THEN <<"warn_buy_params">> ELSE <<>>)
                 \o (IF DecodeWarns(sec.sell) THEN <<"warn_sell_params">> ELSE <<>>)
            ELSE <<"warn_no_param_block">>)
        \o <<"scan_summary">>
        \o (IF SummaryMetrics(lines) = EmptyDict THEN <<"warn_no_summary_metrics">> ELSE <<>>)
        \o <<"scan_backtest">>
        \o (IF tl = <<>> THEN <<"warn_no_total_row">>
            ELSE IF Len(RowParts(tl[1])) < MinTotalParts THEN <<"warn_total_columns">>
            ELSE <<>>)
        \o <<"scan_trailing", "scan_max_open">>
        \o (IF raised THEN <<"err_unexpected">> ELSE <<"parsed_total">>)

\* a bug that tests only for None
NoContentOnlyNone(show_output_content) == show_output_content.absent

\* line 290: not show_output_content (None or "")
NoContent(show_output_content) ==
    show_output_content.absent \/ show_output_content.lines = <<>>

\* parse_hyperopt_show_output, lines 287-487: the return value and the locals
parse_hyperopt_show_output(show_output_content, ctx, run_index, seed) ==
    IF NoContent(show_output_content)
    THEN [result |-> NoRecord, buy_params |-> Unset, sell_params |-> Unset,
          metrics |-> Unset, scan |-> NoScan, log |-> <<"parsing", "err_no_content">>]
    ELSE LET lines == show_output_content.lines
             sec == ParamSections(lines)
             buy == DecodeParams(sec.buy)
             sell == DecodeParams(sec.sell)
             m == AllMetrics(lines)
             raised == StrategyRaises(buy, sell)
             rec == MergeMetrics(
                        MergeStrategy(MergeContext(InitRecord, ctx, run_index, seed), buy.d, sell.d),
                        m)
         IN  [result |-> IF raised THEN NoRecord ELSE Record(rec),
              buy_params |-> buy, sell_params |-> sell,
              metrics |-> [kind |-> "dict", d |-> m],
              scan |-> [done |-> TRUE, buy |-> sec.buy, sell |-> sec.sell,
                        total |-> TotalLines(lines)],
              log |-> ParseLog(lines, raised)]

---------------------------------------------------------------------------
(* Inputs: schemas, run contexts and report vocabularies *)

FullConfig == <<"Run #", "Strategy", "Config", "Epochs", "random-state", "Timerange",
                "Pairs", "loss_function", "Leverage", "% per trade", "Date and Time">>

\* every context column, two strategy parameters, the usual result columns
SchemaFull ==
    [config |-> FullConfig,
     strategy |-> <<"ema_1d_1", "rsi_buy">>,
     results |-> <<"Total profit %", "Trades #", "Duration min", "% Win",
                   "Max open trades", "trailing_stop", "Sharpe">>]
\* use_config_headers false and no strategy fields
SchemaNoConfig ==
    [config |-> <<>>,
     strategy |-> <<>>,
     results |-> <<"Trades #", "Total profit %", "Duration min">>]
\* trailing_stop listed among the strategy parameters
SchemaTrailingParam ==
    [config |-> FullConfig,
     strategy |-> <<"ema_1d_1", "trailing_stop">>,
     results |-> <<"Total profit %", "Trades #">>]

\* result columns for the trailing-stop block and for a key it does not know
SchemaTrailingBlock ==
    [config |-> FullConfig,
     strategy |-> <<"ema_1d_1">>,
     results |-> <<"trailing_stop", "trailing_stop_positive", "stoploss", "Max open trades">>]

\* run_dict of read_hyperopt_runs_from_sheet, lines 131-143: the seven keys are
\* always there (str of the cell, "" for an empty one; Strategy, epochs and
\* timerange are never empty, lines 128-130), loss_function only when set
CtxFull ==
    [k \in {"strategy_name", "config_filename", "epochs", "timerange", "Leverage",
            "% per trade", "Pairs", "loss_function"} |->
        CASE k = "strategy_name" -> "Foo"
          [] k = "config_filename" -> "cfg.json"
          [] k = "epochs" -> "50"
          [] k = "timerange" -> "20230101-20230201"
          [] k = "Leverage" -> "3"
          [] k = "% per trade" -> "2"
          [] k = "Pairs" -> "BTC/USDT"
          [] k = "loss_function" -> "CalmarHyperOptLoss"]
CtxSparse ==
    [k \in {"strategy_name", "config_filename", "epochs", "timerange", "Leverage",
            "% per trade", "Pairs"} |->
        CASE k = "strategy_name" -> "Foo"
          [] k = "epochs" -> "50"
          [] k = "timerange" -> "20230101-20230201"
          [] OTHER -> ""]

TotalRow == Row(5, <<"TOTAL", "42", "1.23%", "50.00 USDT", "7.89%", "1:15:00", "60.0">>)
TotalRowOneNumber == Row(5, <<"TOTAL", "42", "1.23%", "50.00 USDT", "7.89%", "75", "60.0">>)
TotalRowBadDuration == Row(5, <<"TOTAL", "42", "1.23%", "50.00 USDT", "7.89%", "abc", "60.0">>)
TotalRowShort == Row(5, <<"TOTAL", "42", "1.23%">>)
ContinuationRow == Row(1, <<"59.5">>)
ProfitRow == Row(1, <<"Total profit %", "5.5%">>)
\* the report of the worked example
ScenarioReport ==
    <<BuyMarker, Entry("ema_1d_1", "10"), SellMarker, Entry("ema_1d_1", "12"),
      BacktestMarker, TotalRow>>

Families == {"params", "walk", "metrics", "summary", "total", "totalcap", "trailing",
             "trailblock", "mixed", "context", "scenario"}

Vocabulary(f) ==
    CASE f = "params" ->
            {BuyMarker, SellMarker, RoiMarker, Entry("ema_1d_1", "10"), Entry("ema_1d_1", "12"),
             Bare("ema_1d_1"), Bad("ema_1d_1")}
      [] f = "walk" ->
            {BuyMarker, SellMarker, StoplossMarker, TrailingMarker, MaxOpenMarker,
             Entry("rsi_buy", "5")}
      [] f = "scenario" ->
            {SellMarker, Entry("ema_1d_1", "12"), BacktestMarker, TotalRow}
      [] f = "summary" ->
            {SummaryMarker, Border, Blank, Row(1, <<"Sharpe", "1.2", "0.9">>),
             Row(1, <<"Sharpe">>), Row(1, <<"Sharpe", "", "0.9">>)}
      [] f = "metrics" ->
            {SummaryMarker, ProfitRow, Border, BacktestMarker, TotalRow, TotalRowOneNumber}
      [] f = "total" ->
            {BacktestMarker, TotalRow, TotalRowShort, TotalRowBadDuration, ContinuationRow, Blank}
      [] f = "totalcap" ->
            {TotalRowShort, ContinuationRow, Blank, Text("Best result:")}
      [] f = "trailing" ->
            {BuyMarker, Entry("trailing_stop", "1"), TrailingMarker, Assign("trailing_stop", "True"),
             AssignC("max_open_trades", "3", "slots"), Comment("end")}
      [] f = "trailblock" ->
            {TrailingMarker, Assign("trailing_stop", "True"),
             AssignC("trailing_stop_positive", "0.01", "pct"), Assign("stoploss", "-0.1"),
             Comment("end"), AssignC("max_open_trades", "3", "slots")}
      [] f = "mixed" ->
            {BuyMarker, Entry("ema_1d_1", "10"), SummaryMarker, Row(1, <<"Sharpe", "1.2">>),
             BacktestMarker, TotalRow}
      [] f = "context" ->
            {Text("Best result:"), Blank}

Schemas(f) ==
    CASE f = "params" -> {SchemaFull, SchemaNoConfig}
      [] f = "walk" -> {SchemaFull}
      [] f = "scenario" -> {SchemaFull}
      [] f = "summary" -> {SchemaFull}
      [] f = "metrics" -> {SchemaFull, SchemaNoConfig}
      [] f = "total" -> {SchemaFull}
      [] f = "totalcap" -> {SchemaFull}
      [] f = "trailing" -> {SchemaFull, SchemaTrailingParam}
      [] f = "trailblock" -> {SchemaTrailingBlock}
      [] f = "mixed" -> {SchemaFull}
      [] f = "context" -> {SchemaFull, SchemaNoConfig, SchemaTrailingParam}

Contexts(f) == IF f = "context" THEN {CtxFull, CtxSparse} ELSE {CtxFull}
Seeds(f) == IF f = "context" THEN {PyNone, PyStr("42")} ELSE {PyNone}
RunIndexes(f) == IF f = "context" THEN {1, 3} ELSE {1}

\* what the report tool has printed when the model starts to follow it
Preamble(f) ==
    CASE f = "scenario" -> <<BuyMarker, Entry("ema_1d_1", "10")>>
      [] f = "totalcap" -> <<TotalRow, BacktestMarker>>
      [] OTHER -> <<>>
\* how many lines the report may reach
LineLimit(f) == MaxLines + Len(Preamble(f))

NoArgs == [ctx |-> EmptyDict, run_index |-> 0, seed |-> PyNone]

----------------------------------------------------------------------------
(* The results worksheet and write_results_to_row, lines 489-525.          *)
(* A worksheet is a grid of strings: row_count rows of col_count cells,    *)
(* row 1 is the header row.  fails is the set of store operations that     *)
(* raise during the call.                                                   *)

StoreOps == {"get_all_values", "resize", "row_values", "update_cells"}

EmptyRow(n) == [j \in 1..n |-> ""]
PadRow(r, n) == [j \in 1..n |-> IF j <= Len(r) THEN r[j] ELSE ""]
RowHasData(r) == \E j \in DOMAIN r : r[j] # ""
Worksheet(rows, cols) == [rows |-> [i \in DOMAIN rows |-> PadRow(rows[i], cols)], cols |-> cols]

row_count(ws) == Len(ws.rows)
col_count(ws) == ws.cols

\* the last row that holds a non-empty cell, 0 when the sheet is blank
LastDataRow(ws) ==
    LET S == {i \in DOMAIN ws.rows : RowHasData(ws.rows[i])}
    IN  IF S = {} THEN 0 ELSE CHOOSE i \in S : \A j \in S : j <= i

\* worksheet.get_all_values(), line 492: the rows up to the last one with data
get_all_values(ws) == SubSeq(ws.rows, 1, LastDataRow(ws))

\* worksheet.row_values(n), line 507: the row without its trailing empty cells
row_values(ws, n) ==
    IF n \notin DOMAIN ws.rows THEN <<>>
    ELSE LET r == ws.rows[n]
             S == {j \in DOMAIN r : r[j] # ""}
         IN  IF S = {} THEN <<>> ELSE SubSeq(r, 1, CHOOSE j \in S : \A k \in S : k <= j)

\* worksheet.resize(rows, cols), line 505
resize(ws, rows, cols) ==
    [rows |-> [i \in 1..rows |-> IF i <= Len(ws.rows) THEN PadRow(ws.rows[i], cols)
                                  ELSE EmptyRow(cols)],
     cols |-> cols]

\* gspread.Cell(row, col, value), line 513
Cell(row, col, value) == [row |-> row, col |-> col, value |-> value]

\* worksheet.update_cells(cell_list, ...), line 517
RECURSIVE update_cells(_, _)
update_cells(ws, cell_list) ==
    IF cell_list = <<>> THEN ws
    ELSE LET c == Head(cell_list)
         IN  update_cells([ws EXCEPT !.rows[c.row][c.col] = c.value], Tail(cell_list))

\* str(value), line 512
PyToStr(v) ==
    CASE v.t = "str" -> v.s
      [] v.t = "int" -> StrOfInt(v.n)
      [] v.t = "None" -> "None"

\* header_row.index(header) + 1, line 511: the first column with that header
HeaderIndex(header_row, header) ==
    CHOOSE j \in DOMAIN header_row :
        header_row[j] = header /\ \A k \in 1..(j - 1) : header_row[k] # header

\* a bug that returns the last data row itself
find_next_empty_run_row_last(ws, fails) ==
    IF "get_all_values" \in fails THEN row_count(ws) ELSE Len(get_all_values(ws))

\* lines 489-496
find_next_empty_run_row(ws, fails) ==
    IF "get_all_values" \in fails THEN row_count(ws) + 1 ELSE Len(get_all_values(ws)) + 1

\* a bug that places a value at its position in the schema
CellListBySchemaPosition(header_row, data_dict, target_row) ==
    LET present == SelectSeq([i \in DOMAIN RESULT_HEADERS |-> i],
                             LAMBDA i : RESULT_HEADERS[i] \in Range(header_row))
    IN  [n \in DOMAIN present |->
            Cell(target_row, present[n],
                 PyToStr(DictGet(data_dict, RESULT_HEADERS[present[n]], PyStr(""))))]

\* lines 508-515: one cell for every schema field found in the header row
CellList(header_row, data_dict, target_row) ==
    LET present == SelectSeq(RESULT_HEADERS, LAMBDA h : h \in Range(header_row))
    IN  [n \in DOMAIN present |->
            Cell(target_row, HeaderIndex(header_row, present[n]),
                 PyToStr(DictGet(data_dict, present[n], PyStr(""))))]

\* a bug that reports success although the update raised
WriteSucceededIgnoringUpdate(resize_raised, header_raised, update_raised) ==
    ~(resize_raised \/ header_raised)

\* lines 499-525: the try block returns True unless one of its calls raised
WriteSucceeded(resize_raised, header_raised, update_raised) ==
    ~(resize_raised \/ header_raised \/ update_raised)

Op(name, raised, rows, cells) == [op |-> name, raised |-> raised, rows |-> rows, cells |-> cells]

\* lines 498-525
write_results_to_row(ws, data_dict, fails) ==
    LET target_row == find_next_empty_run_row(ws, fails)
        current_rows == row_count(ws)
        needs_resize == target_row > current_rows
        resize_raised == needs_resize /\ "resize" \in fails
        ws1 == IF needs_resize /\ ~resize_raised THEN resize(ws, target_row, col_count(ws)) ELSE ws
        header_called == ~resize_raised
        header_raised == header_called /\ "row_values" \in fails
        header_row == row_values(ws1, 1)
        cell_list == CellList(header_row, data_dict, target_row)
        update_called == header_called /\ ~header_raised /\ cell_list # <<>>
        update_raised == update_called /\ "update_cells" \in fails
        ws2 == IF update_called /\ ~update_raised THEN update_cells(ws1, cell_list) ELSE ws1
        ops == <<Op("get_all_values", "get_all_values" \in fails, 0, <<>>)>>
               \o (IF needs_resize THEN <<Op("resize", resize_raised, target_row, <<>>)>> ELSE <<>>)
               \o (IF header_called THEN <<Op("row_values", header_raised, 1, <<>>)>> ELSE <<>>)
               \o (IF update_called THEN <<Op("update_cells", update_raised, target_row, cell_list)>>
                   ELSE <<>>)
    IN  [ws |-> ws2,
         ret |-> WriteSucceeded(resize_raised, header_raised, update_raised),
         target |-> target_row,
         ops |-> ops]

NoWrite == [called |-> FALSE, data |-> EmptyDict, fails |-> {}, ret |-> FALSE, target |-> 0,
            ops |-> <<>>, before |-> Worksheet(<<>>, 0)]
NoSheet == Worksheet(<<>>, 0)

InitWriterIdle ==
    /\ sheet = NoSheet
    /\ w_calls = 0
    /\ w_last = NoWrite

----------------------------------------------------------------------------
(* The batch driver, lines 547-642 *)

\* int(cell), line 539, for the cells a results sheet can hold here
IsIntCell(c) == c \in IntTexts

\* lines 527-545; raised: a store read of the function raises
get_next_run_number(ws, raised) ==
    IF raised THEN 1
    ELSE LET header_row == row_values(ws, 1) IN
         IF "Run #" \notin Range(header_row) THEN 1
         ELSE LET run_col_index == HeaderIndex(header_row, "Run #")
                  last == LastDataRow(ws)
                  run_numbers == {IntOfText(ws.rows[i][run_col_index]) :
                                    i \in {r \in 2..last : IsIntCell(ws.rows[r][run_col_index])}}
              IN  IF run_numbers = {} THEN 1
                  ELSE (CHOOSE n \in run_numbers : \A k \in run_numbers : k <= n) + 1

\* a bug that fills the placeholder record with "N/A"
PartialResultNA(run_params, current_run_number, reported_random_state) ==
    DictUpdate([h \in Range(RESULT_HEADERS) |-> NA],
               ContextFields(run_params, current_run_number, reported_random_state))

\* lines 615-629: "FAILED" in every schema field, then the context fields
PartialResult(run_params, current_run_number, reported_random_state) ==
    DictUpdate([h \in Range(RESULT_HEADERS) |-> PyStr("FAILED")],
        [k \in ContextKeys |->
            CASE k = "Run #" -> PyStr(StrOfInt(current_run_number))
              [] k = "Strategy" -> get_value_from_dict(run_params, "strategy_name", NA)
              [] k = "Config" -> get_value_from_dict(run_params, "config_filename",
                                                     PyStr(DEFAULT_CONFIG_FILENAME))
              [] k = "Epochs" -> get_value_from_dict(run_params, "epochs", PyStr(""))
              [] k = "random-state" -> IF reported_random_state # PyNone
                                       THEN reported_random_state ELSE NA
              [] k = "Timerange" -> get_value_from_dict(run_params, "timerange", PyStr(""))
              [] k = "Pairs" -> get_value_from_dict(run_params, "Pairs", NA)
              [] k = "loss_function" -> get_value_from_dict(run_params, "loss_function",
                                                            PyStr(DEFAULT_LOSS_FUNCTION))
              [] k = "Leverage" -> get_value_from_dict(run_params, "Leverage", NA)
              [] k = "% per trade" -> get_value_from_dict(run_params, "% per trade", NA)
              [] k = "Date and Time" -> PyStr(Now)])

\* how a run can end before a report is parsed (lines 584-606), and with one
RunOutcomes == {"docker_failed", "no_file", "show_failed", "save_failed", "show_ok"}

\* lines 584-606: parsed_result of one run
ParsedResult(outcome, report, run_params, current_run_number, reported_random_state) ==
    IF outcome = "show_ok"
    THEN parse_hyperopt_show_output([absent |-> FALSE, lines |-> report], run_params,
                                    current_run_number, reported_random_state).result
    ELSE NoRecord

\* a bug that counts a run as successful as soon as its report was parsed
RunCountedOnParse(parsed_ok, written) == parsed_ok

\* lines 608-610: the run is counted as successful
RunCounted(parsed_ok, written) == parsed_ok /\ written

NoRun == [ran |-> FALSE, run_number |-> 0, run_params |-> EmptyDict, seed |-> PyNone,
          outcome |-> "", report |-> <<>>, parsed |-> NoRecord, submitted |-> EmptyDict]

InitDriverIdle ==
    /\ d_pc = "idle"
    /\ hyperopt_runs = <<>>
    /\ run_i = 0
    /\ next_run_number = 0
    /\ successful_runs_count = 0
    /\ failed_runs_count = 0
    /\ d_last = NoRun

\* run_hyperopt_docker has not been called
NoReturn == [returned |-> FALSE, run_successful |-> FALSE, reported_random_state |-> PyNone]

InitSeedIdle ==
    /\ rs_pc = "idle"
    /\ input_random_state = PyNone
    /\ captured_random_state = PyNone
    /\ buffer = <<>>
    /\ rs_out = <<>>
    /\ rs_ret = NoReturn

---------------------------------------------------------------------------
(* The report is written line by line, then parsed once *)

InitParse ==
    /\ family \in Families
    /\ schema \in Schemas(family)
    /\ \E a \in BOOLEAN : content = [absent |-> a, lines |-> IF a THEN <<>> ELSE Preamble(family)]
    /\ pc = "input"
    /\ result = NoRecord
    /\ buy_params = Unset
    /\ sell_params = Unset
    /\ metrics = Unset
    /\ scan = NoScan
    /\ log = <<>>
    /\ args = NoArgs

\* the report tool prints one more line; run_hyperopt_show_docker hands on
\* None instead of an output that is empty once stripped (lines 254-256)
AddLine(l) ==
    /\ pc = "input"
    /\ ~(content.absent /\ content.lines = <<>>)
    /\ Len(content.lines) < LineLimit(family)
    /\ LET printed == Append(content.lines, l) IN
        content' = [absent |-> \A i \in DOMAIN printed : IsEmptyStripped(printed[i]),
                    lines |-> printed]
    /\ UNCHANGED <<family, schema, pc, result, buy_params, sell_params, metrics, scan, log, args>>

\* one call of parse_hyperopt_show_output; the parser is not called on an
\* output the tool printed that run_hyperopt_show_docker turned into None
Parse(ctx, run_index, seed) ==
    /\ pc = "input"
    /\ ~(content.absent /\ content.lines # <<>>)
    /\ LET r == parse_hyperopt_show_output(content, ctx, run_index, seed) IN
        /\ result' = r.result
        /\ buy_params' = r.buy_params
        /\ sell_params' = r.sell_params
        /\ metrics' = r.metrics
        /\ scan' = r.scan
        /\ log' = r.log
    /\ args' = [ctx |-> ctx, run_index |-> run_index, seed |-> seed]
    /\ pc' = "parsed"
    /\ UNCHANGED <<family, schema, content>>

Init == InitParse /\ InitDur /\ InitWriterIdle /\ InitDriverIdle /\ InitSeedIdle

Next ==
    \/ /\ \E l \in Vocabulary(family) : AddLine(l)
       /\ UNCHANGED <<dvars, wvars, drvars, svars>>
    \/ /\ \E ctx \in Contexts(family), run_index \in RunIndexes(family), seed \in Seeds(family) :
            Parse(ctx, run_index, seed)
       /\ UNCHANGED <<dvars, wvars, drvars, svars>>

Spec == Init /\ [][Next]_vars

\* the runs of parse_duration alone
InitDuration ==
    /\ family = "context"
    /\ schema = SchemaFull
    /\ content = [absent |-> TRUE, lines |-> <<>>]
    /\ pc = "input"
    /\ result = NoRecord
    /\ buy_params = Unset
    /\ sell_params = Unset
    /\ metrics = Unset
    /\ scan = NoScan
    /\ log = <<>>
    /\ args = NoArgs
    /\ InitDur
    /\ InitWriterIdle
    /\ InitDriverIdle
    /\ InitSeedIdle

NextDuration ==
    \/ /\ \E tok \in DurTokens : DurAddPart(tok)
       /\ UNCHANGED <<pvars, wvars, drvars, svars>>
    \/ /\ DurCall
       /\ UNCHANGED <<pvars, wvars, drvars, svars>>

SpecDuration == InitDuration /\ [][NextDuration]_vars

----------------------------------------------------------------------------
(* Calls of write_results_to_row on a results sheet *)

\* header rows a results sheet can have for the schema in use: the schema
\* itself, one with a foreign first column and two fields missing, none
SheetHeaders ==
    {RESULT_HEADERS,
     <<"Notes">> \o SelectSeq(RESULT_HEADERS, LAMBDA h : h \notin {"Trades #", "Config"}),
     <<>>}
SheetWidth(header) == IF header = <<>> THEN 1 ELSE Len(header)
OldRow(cols) == [j \in 1..cols |-> "2"]
\* the rows below the header: none, an empty one, an empty one and one with data
RowsBelow(header) ==
    IF header = <<>> THEN {<<>>}
    ELSE {<<>>, <<EmptyRow(Len(header))>>, <<EmptyRow(Len(header)), OldRow(Len(header))>>}
SampleSheets ==
    UNION {{Worksheet(<<header>> \o below, SheetWidth(header)) : below \in RowsBelow(header)} :
            header \in SheetHeaders}

\* records the driver hands to the writer
WriterRecords ==
    {parse_hyperopt_show_output([absent |-> FALSE, lines |-> ScenarioReport],
                                CtxFull, 1, PyStr("42")).result.rec,
     parse_hyperopt_show_output([absent |-> FALSE, lines |-> <<BacktestMarker, TotalRowOneNumber>>],
                                CtxSparse, 2, PyNone).result.rec,
     PartialResult(CtxFull, 3, PyNone)}

\* which store operations raise during one call
FailSets ==
    {{}, {"get_all_values"}, {"resize"}, {"row_values"}, {"update_cells"},
     {"get_all_values", "resize"}, {"get_all_values", "update_cells"}}

ParseIdle ==
    /\ family = "context"
    /\ content = [absent |-> TRUE, lines |-> <<>>]
    /\ pc = "input"
    /\ result = NoRecord
    /\ buy_params = Unset
    /\ sell_params = Unset
    /\ metrics = Unset
    /\ scan = NoScan
    /\ log = <<>>
    /\ args = NoArgs

InitWriter ==
    /\ ParseIdle
    /\ schema \in {SchemaFull, SchemaNoConfig}
    /\ InitDur
    /\ InitDriverIdle
    /\ InitSeedIdle
    /\ sheet \in SampleSheets
    /\ w_calls = 0
    /\ w_last = NoWrite

\* the effect of one call on the writer's variables
Written(data_dict, fails) ==
    LET r == write_results_to_row(sheet, data_dict, fails) IN
    /\ sheet' = r.ws
    /\ w_calls' = w_calls + 1
    /\ w_last' = [called |-> TRUE, data |-> data_dict, fails |-> fails, ret |-> r.ret,
                  target |-> r.target, ops |-> r.ops, before |-> sheet]

\* one call of write_results_to_row
WriteCall(data_dict, fails) ==
    /\ w_calls < MaxWrites
    /\ Written(data_dict, fails)

NextWriter ==
    /\ \E data_dict \in WriterRecords, fails \in FailSets : WriteCall(data_dict, fails)
    /\ UNCHANGED <<pvars, dvars, drvars, svars>>

SpecWriter == InitWriter /\ [][NextWriter]_vars

----------------------------------------------------------------------------
(* The batch driver's loop *)

RunsOfLen(n) == [i \in 1..n |-> IF i % 2 = 1 THEN CtxSparse ELSE CtxFull]
DriverSheets ==
    {Worksheet(<<RESULT_HEADERS, EmptyRow(Len(RESULT_HEADERS)), OldRow(Len(RESULT_HEADERS))>>,
               Len(RESULT_HEADERS)),
     Worksheet(<<<<"Notes">> \o SelectSeq(RESULT_HEADERS, LAMBDA h : h \notin {"Trades #", "Config"})>>,
               Len(RESULT_HEADERS))}
DriverReports == {ScenarioReport, <<BuyMarker, Bare("ema_1d_1")>>, <<Text("Best result:")>>}
DriverSeeds == {PyNone, PyStr("42")}
DriverFailSets == {{}, {"update_cells"}}

InitDriver ==
    /\ ParseIdle
    /\ schema \in {SchemaFull, SchemaNoConfig}
    /\ InitDur
    /\ InitSeedIdle
    /\ sheet \in DriverSheets
    /\ w_calls = 0
    /\ w_last = NoWrite
    /\ d_pc = "start"
    /\ hyperopt_runs \in {RunsOfLen(n) : n \in 0..MaxRuns}
    /\ run_i = 0
    /\ next_run_number = 0
    /\ successful_runs_count = 0
    /\ failed_runs_count = 0
    /\ d_last = NoRun

\* lines 561-564: no runs, exit(1)
ExitNoRuns ==
    /\ d_pc = "start"
    /\ hyperopt_runs = <<>>
    /\ d_pc' = "exit"
    /\ UNCHANGED <<hyperopt_runs, run_i, next_run_number, successful_runs_count,
                   failed_runs_count, d_last, wvars>>

\* lines 566-571
StartBatch(raised) ==
    /\ d_pc = "start"
    /\ hyperopt_runs # <<>>
    /\ next_run_number' = get_next_run_number(sheet, raised)
    /\ d_pc' = "loop"
    /\ UNCHANGED <<hyperopt_runs, run_i, successful_runs_count, failed_runs_count, d_last, wvars>>

\* lines 573-635: one iteration of the loop
RunOnce(outcome, reported_random_state, report, fails) ==
    /\ d_pc = "loop"
    /\ run_i < Len(hyperopt_runs)
    /\ LET current_run_number == next_run_number + run_i
           run_params == DictSet(hyperopt_runs[run_i + 1], "run_number",
                                 PyInt(current_run_number))
           parsed_result == ParsedResult(outcome, report, run_params, current_run_number,
                                         reported_random_state)
           submitted == IF parsed_result.ok THEN parsed_result.rec
                        ELSE PartialResult(run_params, current_run_number, reported_random_state)
           written == write_results_to_row(sheet, submitted, fails).ret
       IN  /\ Written(submitted, fails)
           /\ successful_runs_count' =
                 IF RunCounted(parsed_result.ok, written) THEN successful_runs_count + 1
                 ELSE successful_runs_count
           /\ failed_runs_count' =
                 IF RunCounted(parsed_result.ok, written) THEN failed_runs_count
                 ELSE failed_runs_count + 1
           /\ d_last' = [ran |-> TRUE, run_number |-> current_run_number,
                         run_params |-> run_params, seed |-> reported_random_state,
                         outcome |-> outcome, report |-> report, parsed |-> parsed_result,
                         submitted |-> submitted]
           /\ hyperopt_runs' = [hyperopt_runs EXCEPT ![run_i + 1] = run_params]
    /\ run_i' = run_i + 1
    /\ UNCHANGED <<d_pc, next_run_number>>

\* lines 637-642: the loop is over
Finish ==
    /\ d_pc = "loop"
    /\ run_i = Len(hyperopt_runs)
    /\ d_pc' = "done"
    /\ UNCHANGED <<hyperopt_runs, run_i, next_run_number, successful_runs_count,
                   failed_runs_count, d_last, wvars>>

NextDriver ==
    \/ /\ ExitNoRuns
       /\ UNCHANGED <<pvars, dvars, svars>>
    \/ /\ \E raised \in BOOLEAN : StartBatch(raised)
       /\ UNCHANGED <<pvars, dvars, svars>>
    \/ /\ \E outcome \in RunOutcomes, seed \in DriverSeeds, fails \in DriverFailSets :
            \E report \in (IF outcome = "show_ok" THEN DriverReports ELSE {<<>>}) :
                RunOnce(outcome, seed, report, fails)
       /\ UNCHANGED <<pvars, dvars, svars>>
    \/ /\ Finish
       /\ UNCHANGED <<pvars, dvars, svars>>

SpecDriver == InitDriver /\ [][NextDriver]_vars

---------------------------------------------------------------------------
(* run_hyperopt_docker: the optimizer's output is streamed line by line *)

\* a line the optimizer prints: ordinary text, a line announcing the seed
\* ("... optimizer random state: 42", ansi when colour escapes surround the
\* digits), a line ending in the label alone, or a line beginning with digits
StreamLine(kind, digits, ansi) == [kind |-> kind, digits |-> digits, ansi |-> ansi]
StreamLines == {StreamLine("text", "", FALSE), StreamLine("seed", "42", FALSE),
                StreamLine("seed", "99", FALSE), StreamLine("seed", "42", TRUE),
                StreamLine("label", "", FALSE), StreamLine("digits", "12", FALSE)}

\* ansi_escape.sub("", line)
ansi_escape_sub(line) == [line EXCEPT !.ansi = FALSE]

\* re.search(r'optimizer random state:\s*(\d+)', buffer, re.IGNORECASE): group 1
\* of the leftmost match, None without a match; the label matches with digits
\* on its own line or, across the line break, with digits opening the next line
rs_match(buf) ==
    LET hits == {i \in 1..Len(buf) :
                    \/ buf[i].kind = "seed" /\ ~buf[i].ansi
                    \/ buf[i].kind = "label" /\ i < Len(buf) /\ buf[i + 1].kind = "digits"}
        first == CHOOSE i \in hits : \A j \in hits : i <= j
    IN IF hits = {} THEN PyNone
       ELSE IF buf[first].kind = "seed" THEN PyStr(buf[first].digits)
       ELSE PyStr(buf[first + 1].digits)

should_capture_random_state == input_random_state = PyNone

reported_random_state ==
    IF captured_random_state # PyNone THEN captured_random_state ELSE input_random_state

InitSeed ==
    /\ ParseIdle
    /\ schema = SchemaFull
    /\ InitDur
    /\ InitWriterIdle
    /\ InitDriverIdle
    /\ rs_pc = "reading"
    /\ input_random_state \in {PyNone, PyStr("5")}
    /\ captured_random_state = PyNone
    /\ buffer = <<>>
    /\ rs_out = <<>>
    /\ rs_ret = NoReturn

\* one pass of the loop with a non-empty line
ReadLine(line) ==
    /\ rs_pc = "reading"
    /\ Len(rs_out) < MaxOutput
    /\ rs_out' = Append(rs_out, line)
    /\ LET grown == Append(buffer, ansi_escape_sub(line))
           searched == should_capture_random_state /\ captured_random_state = PyNone
           found == searched /\ rs_match(grown) # PyNone
       IN /\ captured_random_state' = IF found THEN rs_match(grown) ELSE captured_random_state
          /\ buffer' = IF found THEN <<>> ELSE grown
    /\ UNCHANGED <<rs_pc, input_random_state, rs_ret>>

\* the stream ends and process.wait() gives the exit code
ProcessExit(return_code) ==
    /\ rs_pc = "reading"
    /\ rs_pc' = "returned"
    /\ rs_ret' = [returned |-> TRUE, run_successful |-> return_code = 0,
                  reported_random_state |-> reported_random_state]
    /\ UNCHANGED <<input_random_state, captured_random_state, buffer, rs_out>>

\* Popen, readline, print or wait raises
StreamRaises ==
    /\ rs_pc = "reading"
    /\ rs_pc' = "returned"
    /\ rs_ret' = [returned |-> TRUE, run_successful |-> FALSE,
                  reported_random_state |-> input_random_state]
    /\ UNCHANGED <<input_random_state, captured_random_state, buffer, rs_out>>

NextSeed ==
    \/ /\ \E line \in StreamLines : ReadLine(line)
       /\ UNCHANGED <<pvars, dvars, wvars, drvars>>
    \/ /\ \E return_code \in {0, 1} : ProcessExit(return_code)
       /\ UNCHANGED <<pvars, dvars, wvars, drvars>>
    \/ /\ StreamRaises
       /\ UNCHANGED <<pvars, dvars, wvars, drvars>>

SpecSeed == InitSeed /\ [][NextSeed]_vars

---------------------------------------------------------------------------
(* Properties *)

Parsed == pc = "parsed"
Returned == pc = "parsed" /\ result.ok
Lines == content.lines
Abs(x) == IF x < 0 THEN -x ELSE x

\* C1: the returned record's key set is exactly the schema's field set
C1_KeySetIsSchema ==
    Returned => DOMAIN result.rec = Range(RESULT_HEADERS)

\* a schema field nothing resolved: as a context field its run-context value
\* is missing or empty (Config and loss_function have configured defaults), as
\* a strategy parameter it is on neither side, as a metric it was not parsed
CtxKeyOf(f) ==
    CASE f = "Strategy" -> "strategy_name"
      [] f = "Epochs" -> "epochs"
      [] f = "Timerange" -> "timerange"
      [] OTHER -> f
CtxUnresolved(f) ==
    \/ /\ f \in {"Strategy", "Epochs", "Timerange", "Pairs", "Leverage", "% per trade"}
       /\ (CtxKeyOf(f) \notin DOMAIN args.ctx \/ args.ctx[CtxKeyOf(f)] = "")
    \/ f = "random-state" /\ args.seed = PyNone
    \/ f \notin ContextKeys
Unresolved(f) ==
    /\ CtxUnresolved(f)
    /\ f \notin DOMAIN buy_params.d
    /\ f \notin DOMAIN sell_params.d
    /\ (f \notin DOMAIN metrics.d \/ metrics.d[f] \in {PyNone, NA})

\* C2: every schema field that no source resolved holds exactly "N/A"
C2_UnresolvedIsNA ==
    Returned => \A f \in Range(RESULT_HEADERS) : Unresolved(f) => result.rec[f] = NA

\* C3: every non-empty report yields a record, whatever its sections hold
C3_AlwaysRecord ==
    (Parsed /\ ~content.absent /\ Lines # <<>>) => result.ok

\* C4: an empty or absent report yields no record, and nothing is scanned or merged
C4_EmptyInputNoRecord ==
    (Parsed /\ (content.absent \/ Lines = <<>>)) =>
        /\ result = NoRecord
        /\ buy_params = Unset /\ sell_params = Unset /\ metrics = Unset
        /\ scan = NoScan
        /\ log = <<"parsing", "err_no_content">>
C4_Witness ==
    Parsed /\ ~content.absent /\ Lines = <<>> /\ ~result.ok /\ metrics = Unset

NoSummaryMarker == \A i \in DOMAIN Lines : ~HasSummaryMarker(Lines[i])
\* the keys the total row, the trailing-stop block and the max_open_trades line write
OtherDecoderKeys ==
    {"Trades #", "Avg. Profit %", "Total profit %", "Duration min", "% Win", "Max open trades"}
        \cup TrailingKeys

\* C5 as stated: without a SUMMARY METRICS marker every results field is "N/A"
C5_NoSummaryAllMetricsNA ==
    (Returned /\ NoSummaryMarker) => \A f \in Range(RESULTS_HEADERS) : result.rec[f] = NA

\* C5 amended: without a SUMMARY METRICS marker every results field that the
\* other decoders do not write is "N/A", and the strategy and context fields
\* hold the buy/sell and run-context values unless they are such a key
C5_NoSummaryOnlyOtherDecoders ==
    (Returned /\ NoSummaryMarker) =>
        /\ \A f \in Range(RESULTS_HEADERS) \ (OtherDecoderKeys \cup ContextKeys \cup Range(STRATEGY_HEADERS)) :
                result.rec[f] = NA
        /\ \A f \in Range(STRATEGY_HEADERS) \ OtherDecoderKeys :
                result.rec[f] = DictGet(buy_params.d, f, DictGet(sell_params.d, f, NA))
        /\ \A f \in ContextKeys \ (OtherDecoderKeys \cup Range(STRATEGY_HEADERS)) :
                /\ f \in {"Strategy", "Epochs", "Timerange", "Pairs", "Leverage", "% per trade"}
                   => result.rec[f] = IF args.ctx[CtxKeyOf(f)] = "" THEN NA
                                      ELSE PyStr(args.ctx[CtxKeyOf(f)])
                /\ f = "Run #" => result.rec[f] = PyStr(StrOfInt(args.run_index))
                /\ f = "Config" => result.rec[f] = IF args.ctx["config_filename"] = ""
                                                   THEN PyStr(DEFAULT_CONFIG_FILENAME)
                                                   ELSE PyStr(args.ctx["config_filename"])
                /\ f = "loss_function" => result.rec[f] = IF "loss_function" \in DOMAIN args.ctx
                                                          THEN PyStr(args.ctx["loss_function"])
                                                          ELSE PyStr(DEFAULT_LOSS_FUNCTION)
                /\ f = "random-state" => result.rec[f] = IF args.seed = PyNone THEN NA ELSE args.seed
                /\ f = "Date and Time" => result.rec[f] = PyStr(Now)
C5_Witness ==
    /\ Returned /\ NoSummaryMarker
    /\ Lines = <<BuyMarker, Entry("ema_1d_1", "10"), BacktestMarker, TotalRow>>
    /\ result.rec["Trades #"] = PyStr("42")
    /\ result.rec["Sharpe"] = NA
    /\ result.rec["ema_1d_1"] = PyInt(10)
    /\ result.rec["Strategy"] = PyStr("Foo")

\* C6: a strategy parameter holds the buy value, else the sell value, else "N/A"
C6_BuyThenSellThenNA ==
    Returned => \A p \in Range(STRATEGY_HEADERS) :
        result.rec[p] = IF p \in DOMAIN buy_params.d THEN buy_params.d[p]
                        ELSE IF p \in DOMAIN sell_params.d THEN sell_params.d[p]
                        ELSE NA

\* the cells of the first TOTAL row after a BACKTESTING REPORT marker, and the
\* value cell of the last 'Total profit %' row of the summary table
HasTotalRowAt(i) ==
    /\ i \in DOMAIN Lines
    /\ StartsWithTotal(Lines[i])
    /\ \E j \in 1..(i - 1) : HasBacktestMarker(Lines[j])
    /\ \A j \in 1..(i - 1) :
          ~(StartsWithTotal(Lines[j]) /\ \E k \in 1..(j - 1) : HasBacktestMarker(Lines[k]))
    /\ Len(RowParts(Lines[i])) >= MinTotalParts
HasSummaryProfitAt(i) ==
    /\ i \in DOMAIN Lines
    /\ Lines[i] = ProfitRow
    /\ \E j \in 1..(i - 1) : HasSummaryMarker(Lines[j])
    /\ \A j \in 1..(i - 1) :
          StartsWithClosingBorder(Lines[j]) => \A k \in 1..(j - 1) : ~HasSummaryMarker(Lines[k])

\* C7: when the summary table and the total row both give 'Total profit %',
\* the record holds the total row's value, in either order of the two tables
C7_TotalRowWins ==
    Returned =>
        \A i, j \in DOMAIN Lines :
            (HasTotalRowAt(i) /\ HasSummaryProfitAt(j) /\ "Total profit %" \in Range(RESULT_HEADERS))
                => result.rec["Total profit %"] = PyStr(StripPercent(RowParts(Lines[i])[5]))
C7_Witness ==
    /\ Returned
    /\ Lines = <<BacktestMarker, TotalRow, SummaryMarker, ProfitRow>>
    /\ SummaryMetrics(Lines)["Total profit %"] = PyStr("5.5%")
    /\ result.rec["Total profit %"] = PyStr("7.89")

\* C8: a field set by an earlier merge step is not replaced by a later one
C8_LaterStepKeepsSetFields ==
    Returned =>
        LET afterContext == MergeContext(InitRecord, args.ctx, args.run_index, args.seed)
            afterStrategy == MergeStrategy(afterContext, buy_params.d, sell_params.d)
        IN  /\ \A f \in DOMAIN afterContext :
                    afterContext[f] # NA => afterStrategy[f] = afterContext[f]
            /\ \A f \in DOMAIN afterStrategy :
                    afterStrategy[f] # NA => result.rec[f] = afterStrategy[f]

AllInts(parts) == \A i \in DOMAIN parts : parts[i] \in IntTexts
\* the duration in seconds of h:m:s or m:s
Seconds(parts) ==
    IF Len(parts) = 3
    THEN 3600 * IntOfText(parts[1]) + 60 * IntOfText(parts[2]) + IntOfText(parts[3])
    ELSE 60 * IntOfText(parts[1]) + IntOfText(parts[2])

\* C9: h:m:s and m:s give the whole minute nearest to the duration (no
\* truncation); '1:29:00' gives 89, '2:05' gives 2, '61:30' gives 62
C9_RoundsToNearest ==
    dur_pc = "done" =>
        /\ (AllInts(dur_in) /\ Len(dur_in) \in {2, 3}) =>
                /\ dur_out.t = "int"
                /\ 2 * Abs(60 * dur_out.n - Seconds(dur_in)) <= 60
        /\ dur_in = <<"1", "29", "00">> => dur_out = PyInt(89)
        /\ dur_in = <<"2", "05">> => dur_out = PyInt(2)
        /\ dur_in = <<"61", "30">> => dur_out = PyInt(62)
C9_Witness ==
    dur_pc = "done" /\ dur_in = <<"1", "45", "30">> /\ dur_out = PyInt(106)

\* C10: every input that is not 2 or 3 numeric components gives "N/A"
C10_MalformedIsNA ==
    (dur_pc = "done" /\ ~(AllInts(dur_in) /\ Len(dur_in) \in {2, 3})) => dur_out = NA


\* the value the run context gives a context field (lines 461-473)
RunContextValue(f) ==
    CASE f = "Run #" -> PyStr(StrOfInt(args.run_index))
      [] f = "Config" -> IF "config_filename" \in DOMAIN args.ctx /\ args.ctx["config_filename"] # ""
                         THEN PyStr(args.ctx["config_filename"])
                         ELSE PyStr(DEFAULT_CONFIG_FILENAME)
      [] f = "loss_function" -> IF "loss_function" \in DOMAIN args.ctx /\ args.ctx["loss_function"] # ""
                                THEN PyStr(args.ctx["loss_function"])
                                ELSE PyStr(DEFAULT_LOSS_FUNCTION)
      [] f = "random-state" -> IF args.seed = PyNone THEN NA ELSE args.seed
      [] f = "Date and Time" -> PyStr(Now)
      [] OTHER -> IF CtxKeyOf(f) \in DOMAIN args.ctx /\ args.ctx[CtxKeyOf(f)] # ""
                  THEN PyStr(args.ctx[CtxKeyOf(f)])
                  ELSE NA

NoSectionMarkers ==
    \A i \in DOMAIN Lines :
        /\ ~HasBuyMarker(Lines[i]) /\ ~HasSellMarker(Lines[i])
        /\ ~HasSummaryMarker(Lines[i]) /\ ~HasBacktestMarker(Lines[i])
        /\ ~HasTrailingMarker(Lines[i]) /\ ~StartsWithMaxOpenTrades(Lines[i])

\* C11: a non-empty report without any section marker and without a
\* max_open_trades line yields a record whose strategy and metric fields are
\* all "N/A" and whose context fields hold the run-context values
C11_NoMarkersAllNA ==
    (Parsed /\ ~content.absent /\ Lines # <<>> /\ NoSectionMarkers) =>
        /\ result.ok
        /\ \A f \in Range(STRATEGY_HEADERS) \cup Range(RESULTS_HEADERS) : result.rec[f] = NA
        /\ \A f \in ContextKeys : result.rec[f] = RunContextValue(f)
C11_Witness ==
    /\ Returned /\ NoSectionMarkers
    /\ Lines = <<Entry("trailing_stop", "1"), Assign("trailing_stop", "True"), Comment("end")>>
    /\ result.rec["trailing_stop"] = NA
    /\ result.rec["Trades #"] = NA
    /\ result.rec["Strategy"] = PyStr("Foo")

\* the last buy marker of the report and the lines from it to the end
BuyMarkerIndexes == {i \in DOMAIN Lines : HasBuyMarker(Lines[i])}
LastBuyMarker == CHOOSE i \in BuyMarkerIndexes : \A j \in BuyMarkerIndexes : j <= i
CurrentBlock == SubSeq(Lines, LastBuyMarker, Len(Lines))
Occurrences(seq, l) == Cardinality({i \in DOMAIN seq : seq[i] = l})

\* C16: the buy and sell sections hold only lines that stand at or after the
\* last buy marker, and every decoded parameter comes from such a line
C16_OnlyLastBlock ==
    (Parsed /\ scan.done /\ BuyMarkerIndexes # {}) =>
        /\ \A l \in Range(scan.buy) \cup Range(scan.sell) :
                Occurrences(scan.buy, l) + Occurrences(scan.sell, l) <= Occurrences(CurrentBlock, l)
        /\ \A p \in {buy_params, sell_params} : \A k \in DOMAIN p.d :
                \E i \in DOMAIN CurrentBlock :
                    /\ CurrentBlock[i].kind = "entry" /\ CurrentBlock[i].key = k
                    /\ p.d[k] = PyInt(IntOfText(CurrentBlock[i].val))
C16_Witness ==
    /\ Returned /\ schema = SchemaFull
    /\ Lines = <<BuyMarker, Entry("ema_1d_1", "10"), BuyMarker, Entry("ema_1d_1", "12")>>
    /\ scan.buy = <<Entry("ema_1d_1", "12")>>
    /\ buy_params.d["ema_1d_1"] = PyInt(12)
    /\ result.rec["ema_1d_1"] = PyInt(12)

\* the walk's view of line i: the classification markers seen since the last
\* buy marker, and whether an ending marker stands between that marker and i
IsClassifier(l) == HasBuyMarker(l) \/ HasSellMarker(l) \/ StartsRoiOrStoploss(l)
WalkEndedBefore(i) ==
    \E j \in LastBuyMarker..(i - 1) : StartsTrailingOrMaxOpen(Lines[j])
MostRecentClassifier(i) ==
    CHOOSE j \in LastBuyMarker..(i - 1) :
        /\ IsClassifier(Lines[j])
        /\ \A k \in (j + 1)..(i - 1) : ~IsClassifier(Lines[k])
CollectedUnder(i, side) ==
    /\ i \in (LastBuyMarker + 1)..Len(Lines)
    /\ StartsWithQuote(Lines[i])
    /\ ~WalkEndedBefore(i)
    /\ IF side = "buy" THEN HasBuyMarker(Lines[MostRecentClassifier(i)])
                       ELSE HasSellMarker(Lines[MostRecentClassifier(i)])
ExpectedSection(side) ==
    LET S == {i \in DOMAIN Lines : CollectedUnder(i, side)}
        Nth(n) == CHOOSE i \in S : Cardinality({j \in S : j <= i}) = n
    IN  [n \in 1..Cardinality(S) |-> Lines[Nth(n)]]

\* C17: in the walk from the last buy marker a line enters the buy (sell)
\* section exactly when it starts with a double quote, the most recent
\* classification marker is the buy (sell) marker and no '# Trailing stop:' or
\* '# Max Open Trades:' line came before it; ROI and Stoploss lines clear the
\* classification without ending the walk
C17_WalkClassification ==
    (Parsed /\ scan.done /\ BuyMarkerIndexes # {}) =>
        /\ scan.buy = ExpectedSection("buy")
        /\ scan.sell = ExpectedSection("sell")
C17_Witness ==
    /\ Returned
    /\ Lines = <<BuyMarker, StoplossMarker, SellMarker, Entry("rsi_buy", "5")>>
    /\ scan.buy = <<>>
    /\ scan.sell = <<Entry("rsi_buy", "5")>>
    /\ result.rec["rsi_buy"] = PyInt(5)

LastCell(l) == l.cells[Len(l.cells)]

\* C18: when a TOTAL row is decoded, '% Win' is the last cell of the final
\* captured continuation row if one was captured, else the last cell of the
\* TOTAL row itself
C18_WinFromLastCapturedRow ==
    (Parsed /\ scan.done /\ scan.total # <<>> /\ Len(RowParts(scan.total[1])) >= MinTotalParts) =>
        metrics.d["% Win"] = PyStr(LastCell(scan.total[Len(scan.total)]))

\* the first TOTAL row that stands after a BACKTESTING REPORT marker
TotalAfterMarker(i) ==
    /\ i \in DOMAIN Lines
    /\ StartsWithTotal(Lines[i])
    /\ \E j \in 1..(i - 1) : HasBacktestMarker(Lines[j])
FirstTotalAfterMarker ==
    CHOOSE i \in DOMAIN Lines : TotalAfterMarker(i) /\ \A j \in 1..(i - 1) : ~TotalAfterMarker(j)
Min(a, b) == IF a <= b THEN a ELSE b

\* C19: the captured group is empty unless a TOTAL row follows a BACKTESTING
\* REPORT marker; it then starts with the first such row, holds besides it
\* only rows among the two lines right after it, and so has at most three lines
C19_FirstTotalAfterMarker ==
    (Parsed /\ scan.done) =>
        IF \E i \in DOMAIN Lines : TotalAfterMarker(i)
        THEN LET i == FirstTotalAfterMarker
                 following == SubSeq(Lines, i + 1, Min(i + 2, Len(Lines)))
             IN  /\ scan.total = <<Lines[i]>> \o SelectSeq(following, StartsWithGlyph)
                 /\ Len(scan.total) <= 3
        ELSE scan.total = <<>>
C19_Witness ==
    /\ Returned
    /\ Lines = <<TotalRow, BacktestMarker, TotalRowShort, ContinuationRow, ContinuationRow,
                 ContinuationRow>>
    /\ scan.total = <<TotalRowShort, ContinuationRow, ContinuationRow>>
    /\ "Trades #" \notin DOMAIN metrics.d

\* C20: a captured TOTAL row of at least seven cells gives the trade count
\* from its second cell, the average and total profit percentages from its
\* third and fifth cells without the percent sign, and the duration from
\* parse_duration of its sixth cell; the scenario report gives ema_1d_1 = 10,
\* 42 trades and 75 minutes
C20_TotalRowByPosition ==
    /\ (Parsed /\ scan.done /\ scan.total # <<>> /\ Len(RowParts(scan.total[1])) >= MinTotalParts) =>
            LET cells == RowParts(scan.total[1]) IN
            /\ metrics.d["Trades #"] = PyStr(cells[2])
            /\ metrics.d["Avg. Profit %"] = PyStr(StripPercent(cells[3]))
            /\ metrics.d["Total profit %"] = PyStr(StripPercent(cells[5]))
            /\ metrics.d["Duration min"] = parse_duration(SplitColon(cells[6]))
            /\ result.ok => \A f \in {"Trades #", "Avg. Profit %", "Total profit %", "Duration min"} :
                                f \in Range(RESULTS_HEADERS) => result.rec[f] = metrics.d[f]
    /\ (Parsed /\ ~content.absent /\ Lines = ScenarioReport) =>
            /\ result.ok
            /\ result.rec["ema_1d_1"] = PyInt(10)
            /\ result.rec["Trades #"] = PyStr("42")
            /\ result.rec["Total profit %"] = PyStr("7.89")
            /\ result.rec["Duration min"] = PyInt(75)
C20_Witness ==
    /\ Returned
    /\ Lines = ScenarioReport
    /\ sell_params.d["ema_1d_1"] = PyInt(12)
    /\ metrics.d["Avg. Profit %"] = PyStr("1.23")
    /\ result.rec["Duration min"] = PyInt(75)

\* the latest call of write_results_to_row: the store operations it issued
OpsNamed(name) == {i \in DOMAIN w_last.ops : w_last.ops[i].op = name}
OpRaised(name) == \E i \in OpsNamed(name) : w_last.ops[i].raised
HeaderWasRead == OpsNamed("row_values") # {} /\ ~OpRaised("row_values")
WrittenCells ==
    IF OpsNamed("update_cells") = {} THEN <<>>
    ELSE w_last.ops[CHOOSE i \in OpsNamed("update_cells") : TRUE].cells
SheetHeader == row_values(w_last.before, 1)
ColumnOf(h) == CHOOSE j \in DOMAIN SheetHeader : SheetHeader[j] = h
CellsAt(col) == {i \in DOMAIN WrittenCells : WrittenCells[i].col = col}

\* C12: a call that has read the header row issues, for every schema field
\* in the header row, exactly one cell write with the string form of the
\* field's value at the target row and the header's column, and none for a
\* field the header row lacks; a missing header does not fail the call
C12_OneCellPerPresentField ==
    (w_last.called /\ HeaderWasRead) =>
        /\ \A h \in Range(RESULT_HEADERS) \cap Range(SheetHeader) :
              /\ Cardinality(CellsAt(ColumnOf(h))) = 1
              /\ \A i \in CellsAt(ColumnOf(h)) :
                    /\ WrittenCells[i].value = PyToStr(w_last.data[h])
                    /\ WrittenCells[i].row = w_last.target
                    /\ ~OpRaised("update_cells") =>
                           sheet.rows[w_last.target][ColumnOf(h)] = PyToStr(w_last.data[h])
        /\ Len(WrittenCells) = Cardinality(Range(RESULT_HEADERS) \cap Range(SheetHeader))
        /\ \A i \in DOMAIN WrittenCells : WrittenCells[i].row = w_last.target
        /\ w_last.fails = {} => w_last.ret
C12_Witness ==
    /\ w_last.called /\ w_last.ret /\ schema = SchemaFull
    /\ SheetHeader # <<>> /\ SheetHeader[1] = "Notes"
    /\ "Trades #" \notin Range(SheetHeader)
    /\ Len(WrittenCells) = Len(RESULT_HEADERS) - 2
    /\ WrittenCells[CHOOSE i \in CellsAt(ColumnOf("Duration min")) : TRUE].value = "75"
    /\ sheet.rows[w_last.target][ColumnOf("ema_1d_1")] = "10"

\* C13: every call writes only to its target row, which lies strictly after
\* every row that held data; the rows that held data are left as they were;
\* the sheet is resized to the target row before the write exactly when the
\* target row exceeds the row count, also with the fallback row_count + 1
C13_AppendAfterData ==
    w_last.called =>
        LET before == w_last.before IN
        /\ w_last.target > LastDataRow(before)
        /\ \A i \in DOMAIN WrittenCells : WrittenCells[i].row = w_last.target
        /\ \A r \in 1..LastDataRow(before) : sheet.rows[r] = before.rows[r]
        /\ \A r \in DOMAIN sheet.rows :
              (RowHasData(sheet.rows[r]) /\ r > LastDataRow(before)) => r = w_last.target
        /\ (w_last.target > row_count(before)) <=> (OpsNamed("resize") # {})
        /\ \A i \in OpsNamed("resize") :
              /\ w_last.ops[i].rows = w_last.target
              /\ \A j \in OpsNamed("update_cells") : i < j
        /\ \A j \in OpsNamed("update_cells") : row_count(sheet) >= w_last.target
        /\ OpRaised("get_all_values") =>
              /\ w_last.target = row_count(before) + 1
              /\ OpsNamed("resize") # {}
C13_Witness ==
    /\ w_calls = 2 /\ w_last.called /\ w_last.ret
    /\ w_last.fails = {"get_all_values"}
    /\ OpsNamed("resize") # {}
    /\ w_last.target = row_count(w_last.before) + 1
    /\ RowHasData(w_last.before.rows[w_last.target - 1])
    /\ sheet.rows[w_last.target - 1] = w_last.before.rows[w_last.target - 1]
    /\ RowHasData(sheet.rows[w_last.target])

\* C14 as stated: the call returns false exactly when some store operation
\* of the append raised
C14_FalseIffAnyOpRaised ==
    w_last.called => (~w_last.ret <=> \E name \in StoreOps : OpRaised(name))

\* C14 amended: the call returns false exactly when the resize, the header
\* read or the cell update raised; a failed read of the existing rows is
\* absorbed by the fallback position; nothing done before a failure is undone
\* and no operation is issued twice
C14_FalseIffWriteStepRaised ==
    w_last.called =>
        /\ ~w_last.ret <=> \E name \in {"resize", "row_values", "update_cells"} : OpRaised(name)
        /\ \A name \in StoreOps : Cardinality(OpsNamed(name)) <= 1
        /\ \A i \in DOMAIN w_last.ops :
              (w_last.ops[i].raised /\ w_last.ops[i].op # "get_all_values") => i = Len(w_last.ops)
        /\ (OpsNamed("resize") # {} /\ ~OpRaised("resize")) => row_count(sheet) = w_last.target
        /\ (OpsNamed("update_cells") = {} \/ OpRaised("update_cells")) =>
              \A r \in DOMAIN w_last.before.rows : sheet.rows[r] = w_last.before.rows[r]
C14_Witness ==
    /\ w_last.called /\ ~w_last.ret
    /\ w_last.fails = {"get_all_values", "update_cells"}
    /\ OpRaised("update_cells")
    /\ OpsNamed("resize") # {}
    /\ row_count(sheet) = w_last.target
    /\ row_count(sheet) > row_count(w_last.before)

\* the value the driver's run context gives a context field
ContextValueOf(ctx, run_number, seed, f) ==
    CASE f = "Run #" -> PyStr(StrOfInt(run_number))
      [] f = "Config" -> IF "config_filename" \in DOMAIN ctx /\ ctx["config_filename"] # ""
                         THEN PyStr(ctx["config_filename"])
                         ELSE PyStr(DEFAULT_CONFIG_FILENAME)
      [] f = "loss_function" -> IF "loss_function" \in DOMAIN ctx /\ ctx["loss_function"] # ""
                                THEN PyStr(ctx["loss_function"])
                                ELSE PyStr(DEFAULT_LOSS_FUNCTION)
      [] f = "random-state" -> IF seed = PyNone THEN NA ELSE seed
      [] f = "Date and Time" -> PyStr(Now)
      [] OTHER -> IF CtxKeyOf(f) \in DOMAIN ctx /\ ctx[CtxKeyOf(f)] # ""
                  THEN PyStr(ctx[CtxKeyOf(f)])
                  ELSE NA

\* C15: a run without a parsed record submits, through write_results_to_row,
\* a record with "FAILED" in every schema field that is no context field and
\* the run-context values in the context fields
C15_FailedRecordSubmitted ==
    d_last.ran =>
        /\ d_last.outcome # "show_ok" => ~d_last.parsed.ok
        /\ ~d_last.parsed.ok =>
              /\ \A f \in Range(RESULT_HEADERS) \ ContextKeys :
                    d_last.submitted[f] = PyStr("FAILED")
              /\ \A f \in ContextKeys :
                    d_last.submitted[f] =
                        ContextValueOf(d_last.run_params, d_last.run_number, d_last.seed, f)
              /\ w_last.called /\ w_last.data = d_last.submitted
              /\ w_last.ops[1].op = "get_all_values"
              /\ w_last.ret =>
                    \A h \in (Range(RESULT_HEADERS) \cap Range(SheetHeader)) \ ContextKeys :
                        sheet.rows[w_last.target][ColumnOf(h)] = "FAILED"
C15_Witness ==
    /\ d_last.ran /\ d_last.outcome = "show_ok" /\ ~d_last.parsed.ok
    /\ schema = SchemaFull
    /\ d_last.submitted["Trades #"] = PyStr("FAILED")
    /\ d_last.submitted["Strategy"] = PyStr("Foo")
    /\ d_last.submitted["Run #"] = PyStr("4")
    /\ w_last.ret
    /\ sheet.rows[w_last.target][ColumnOf("Total profit %")] = "FAILED"
    /\ failed_runs_count = 2

TotalFields == {"Trades #", "Avg. Profit %", "Total profit %", "Duration min", "% Win"}
WellFormedTotal == scan.total # <<>> /\ Len(RowParts(scan.total[1])) >= MinTotalParts
ValidDurationCell(c) == AllInts(SplitColon(c)) /\ Len(SplitColon(c)) \in {2, 3}

\* C21: without a summary table, a field fed by the TOTAL row holds "N/A"
\* when no row was captured, when the row has fewer than seven cells, or,
\* for the duration, when its cell is no h:m:s or m:s duration; a too-short
\* row writes none of the five fields and nothing is raised
C21_MalformedTotalLeavesNA ==
    (Parsed /\ scan.done /\ NoSummaryMarker /\ BuyMarkerIndexes = {}) =>
        /\ result.ok
        /\ ~WellFormedTotal =>
              /\ TotalFields \cap DOMAIN metrics.d = {}
              /\ \A f \in TotalFields \cap Range(RESULT_HEADERS) : result.rec[f] = NA
        /\ (WellFormedTotal /\ ~ValidDurationCell(RowParts(scan.total[1])[6])
              /\ "Duration min" \in Range(RESULT_HEADERS)) =>
              result.rec["Duration min"] = NA

\* a line strictly between a SUMMARY METRICS marker and the first closing
\* border after it, and the label and value the claim reads from such a row
SummaryClosedBefore(i) ==
    \E k \in 1..(i - 1) : /\ StartsWithClosingBorder(Lines[k])
                          /\ ~HasSummaryMarker(Lines[k])
                          /\ \E j \in 1..(k - 1) : HasSummaryMarker(Lines[j])
SummaryCandidate(i) ==
    /\ i \in DOMAIN Lines
    /\ \E j \in 1..(i - 1) : HasSummaryMarker(Lines[j])
    /\ ~HasSummaryMarker(Lines[i]) /\ ~StartsWithClosingBorder(Lines[i])
    /\ ~SummaryClosedBefore(i)
    /\ Lines[i].kind = "row"
YieldsPair(i) == SummaryCandidate(i) /\ Len(RowParts(Lines[i])) >= 2
LabelOf(i) == RowParts(Lines[i])[1]
ValueOf(i) == RowParts(Lines[i])[Len(RowParts(Lines[i]))]

\* C22: the summary decoder's pairs are exactly those of the candidate rows
\* with at least two non-empty cells, label the first cell and value the last
\* cell, the last row of a label deciding its value
C22_SummaryFirstAndLastCell ==
    (Parsed /\ scan.done) =>
        /\ \A i \in DOMAIN Lines :
              (YieldsPair(i) /\ LabelOf(i) \notin OtherDecoderKeys
                 /\ \A j \in (i + 1)..Len(Lines) : ~(YieldsPair(j) /\ LabelOf(j) = LabelOf(i)))
              => /\ LabelOf(i) \in DOMAIN metrics.d
                 /\ metrics.d[LabelOf(i)] = PyStr(ValueOf(i))
        /\ \A k \in DOMAIN metrics.d \ OtherDecoderKeys :
              \E i \in DOMAIN Lines : YieldsPair(i) /\ LabelOf(i) = k

\* the trailing-stop block: the lines after the first '# Trailing stop:'
\* marker up to the first line that starts with '#' or 'max_open_trades'
TrailingMarkerIndexes == {i \in DOMAIN Lines : HasTrailingMarker(Lines[i])}
FirstTrailingMarker == CHOOSE i \in TrailingMarkerIndexes : \A j \in TrailingMarkerIndexes : i <= j
EndsTrailingBlock(l) == ~HasTrailingMarker(l) /\ (StartsWithHash(l) \/ StartsWithMaxOpenTrades(l))
InTrailingBlock(i) ==
    /\ TrailingMarkerIndexes # {}
    /\ i \in (FirstTrailingMarker + 1)..Len(Lines)
    /\ \A k \in (FirstTrailingMarker + 1)..i : ~EndsTrailingBlock(Lines[k])
AssignsInBlock(key) ==
    {i \in DOMAIN Lines : InTrailingBlock(i) /\ Lines[i].kind = "assign" /\ Lines[i].key = key}
ExpectedTrailing(key) ==
    IF AssignsInBlock(key) = {} THEN NA
    ELSE PyStr(Lines[CHOOSE i \in AssignsInBlock(key) : \A j \in AssignsInBlock(key) : j <= i].val)

\* a 'key = value' line the trailing-stop decoder does not retain
NotRetained(i) ==
    /\ Lines[i].kind = "assign"
    /\ ~InTrailingBlock(i) \/ Lines[i].key \notin TrailingKeys
\* the lines 'max_open_trades = <digits>'
MaxOpenLines == {i \in DOMAIN Lines : MaxOpenMatch(Lines[i])}
HasMaxOpenField == "Max open trades" \in Range(RESULT_HEADERS)

\* C23: a recognized trailing-stop key holds the value of its last
\* 'key = value' line inside the trailing-stop block, comment removed, and
\* "N/A" when the block has none; a 'key = value' line outside the block or
\* with a key outside the four changes no field of the record
C23_UnretainedLinesLeaveRecord ==
    Returned =>
        /\ \A k \in TrailingKeys \cap Range(RESULT_HEADERS) : result.rec[k] = ExpectedTrailing(k)
        /\ \A i \in DOMAIN Lines : NotRetained(i) =>
              /\ Lines[i].key \in Range(RESULT_HEADERS) \ TrailingKeys =>
                    result.rec[Lines[i].key] = NA
              /\ (StartsWithMaxOpenTrades(Lines[i]) /\ HasMaxOpenField) =>
                    result.rec["Max open trades"] = NA

\* C23, amended: as above, except that the first line of the form
\* 'max_open_trades = <digits>', wherever it stands, sets 'Max open trades'
\* to its digits; without such a line the 'key = value' lines leave that
\* field at "N/A"
C23_TrailingBlockOnly ==
    Returned =>
        /\ \A k \in TrailingKeys \cap Range(RESULT_HEADERS) : result.rec[k] = ExpectedTrailing(k)
        /\ \A i \in DOMAIN Lines :
              (NotRetained(i) /\ Lines[i].key \in Range(RESULT_HEADERS) \ TrailingKeys) =>
                  result.rec[Lines[i].key] = NA
        /\ (HasMaxOpenField /\ MaxOpenLines # {}) =>
              result.rec["Max open trades"] =
                  PyStr(Lines[CHOOSE i \in MaxOpenLines : \A j \in MaxOpenLines : i <= j].val)
        /\ (HasMaxOpenField /\ MaxOpenLines = {} /\ NoSummaryMarker) =>
              result.rec["Max open trades"] = NA
C23_Witness ==
    /\ Returned /\ schema = SchemaTrailingBlock
    /\ Lines = <<TrailingMarker, AssignC("trailing_stop_positive", "0.01", "pct"),
                 AssignC("max_open_trades", "3", "slots"), Assign("trailing_stop", "True")>>
    /\ result.rec["trailing_stop_positive"] = PyStr("0.01")
    /\ result.rec["trailing_stop"] = NA
    /\ result.rec["Max open trades"] = PyStr("3")

\* one pass of the driver's loop
RunStep == run_i' = run_i + 1

\* C24: the runs are taken one after another in order; every run makes exactly
\* one call of write_results_to_row, with the parsed record if there is one
\* and a "FAILED" record otherwise; a run counts as successful exactly when
\* it was parsed and its write returned true, as failed otherwise; the two
\* counters add up to the runs processed, at the end to the number of runs
C24_OneAppendPerRun ==
    /\ [](d_pc \in {"loop", "done"} =>
            /\ w_calls = run_i
            /\ successful_runs_count + failed_runs_count = run_i
            /\ run_i <= Len(hyperopt_runs)
            /\ d_pc = "done" => successful_runs_count + failed_runs_count = Len(hyperopt_runs))
    /\ [][RunStep =>
            /\ d_pc = "loop" /\ d_pc' = "loop"
            /\ w_calls' = w_calls + 1
            /\ d_last'.run_params = hyperopt_runs'[run_i + 1]
            /\ \A k \in DOMAIN hyperopt_runs[run_i + 1] :
                  d_last'.run_params[k] = hyperopt_runs[run_i + 1][k]
            /\ w_last'.before = sheet
            /\ w_last'.data = IF d_last'.parsed.ok THEN d_last'.parsed.rec ELSE d_last'.submitted
            /\ ~d_last'.parsed.ok =>
                  \A f \in Range(RESULT_HEADERS) \ ContextKeys : w_last'.data[f] = PyStr("FAILED")
            /\ IF d_last'.parsed.ok /\ w_last'.ret
               THEN /\ successful_runs_count' = successful_runs_count + 1
                    /\ failed_runs_count' = failed_runs_count
               ELSE /\ successful_runs_count' = successful_runs_count
                    /\ failed_runs_count' = failed_runs_count + 1]_vars
    /\ [][run_i' # run_i => RunStep]_vars
    /\ [][w_calls' # w_calls => RunStep]_vars
C24_Witness ==
    /\ d_pc = "done" /\ Len(hyperopt_runs) = 2
    /\ w_calls = 2
    /\ successful_runs_count = 1 /\ failed_runs_count = 1
    /\ d_last.parsed.ok /\ ~w_last.ret

\* the integers in the 'Run #' column of the results sheet below the header
RunNumbersInSheet ==
    IF "Run #" \notin Range(row_values(sheet, 1)) THEN {}
    ELSE LET col == HeaderIndex(row_values(sheet, 1), "Run #")
         IN  {IntOfText(sheet.rows[r][col]) :
                r \in {x \in 2..Len(sheet.rows) : sheet.rows[x][col] \in IntTexts}}

\* C25: the first run number of a batch is greater than every integer in the
\* sheet's 'Run #' column, the i-th run gets next_run_number + i, and the
\* record submitted for a run carries that number as its 'Run #'
C25_RunNumbers ==
    /\ (d_pc = "loop" /\ run_i = 0) => \A n \in RunNumbersInSheet : next_run_number > n
    /\ d_last.ran =>
          /\ d_last.run_number = next_run_number + (run_i - 1)
          /\ d_last.submitted["Run #"] = PyStr(StrOfInt(d_last.run_number))
          /\ w_last.data["Run #"] = PyStr(StrOfInt(d_last.run_number))


\* the seed the run should report: the captured one, otherwise the supplied one
SeedToReport ==
    IF captured_random_state # PyNone THEN captured_random_state ELSE input_random_state

\* the 'random-state' field of the record built for a reported seed
RandomStateField(seed) == ContextFields(CtxFull, 1, seed)["random-state"]

\* the digits some printed line carries
PrintedDigits == {rs_out[i].digits : i \in 1..Len(rs_out)} \ {""}

\* C26: a seed is captured from the output only when the run supplied none, a
\* captured seed is never replaced by later output, and on return the reported
\* seed is the captured seed if there is one and the supplied seed otherwise,
\* with the record's 'random-state' field holding that seed, or 'N/A' for null
C26_SeedCapturedAndReported ==
    /\ [](input_random_state # PyNone => captured_random_state = PyNone)
    /\ [](captured_random_state # PyNone => captured_random_state.s \in PrintedDigits)
    /\ [][captured_random_state # PyNone => captured_random_state' = captured_random_state]_vars
    /\ [](rs_ret.returned =>
            /\ rs_ret.reported_random_state = SeedToReport
            /\ RandomStateField(rs_ret.reported_random_state) =
                   IF SeedToReport = PyNone THEN NA ELSE SeedToReport)

\* the parts of C26 about capture hold: only without a supplied seed, only from
\* the output, and never replaced
C26_CaptureOnce ==
    /\ [](input_random_state # PyNone => captured_random_state = PyNone)
    /\ [](captured_random_state # PyNone => captured_random_state.s \in PrintedDigits)
    /\ [][captured_random_state # PyNone => captured_random_state' = captured_random_state]_vars

====
